---------------------------- MODULE Spec2Model ----------------------------
(***************************************************************************)
(* Model of the zero-trust file sharing client: key provisioning at login, *)
(* the send sequence (SendFile.handleSend), the receive sequence           *)
(* (ReceiveFiles.handleDownload), the local key store and the API client,  *)
(* run on one device, step by step, against a relaying server that is free *)
(* to answer every request as it likes, and a second user whose device     *)
(* runs the same send and receive sequences, each in one step.             *)
(*                                                                         *)
(* Buffers are sequences of bytes (0..255) and strings are sequences of    *)
(* character codes.  The platform's primitives (window.crypto.subtle) are  *)
(* modelled by byte-level functions that keep the algebra the protocol     *)
(* relies on: AES-GCM is a keystream cipher followed by a 16-byte tag over *)
(* key, nonce and ciphertext; RSA-OAEP and RSA-PSS outputs open or verify  *)
(* only under the key material of the matching pair; SHA-256 is injective. *)
(***************************************************************************)
EXTENDS Integers, Sequences, FiniteSets, TLC

\* ------------------------------------------------------------------ bounds

\* Key pairs the device may generate (new-user logins that provision keys).
MaxKeyGen == 1
\* handleSend invocations on the device.
MaxSends == 1
\* handleSend invocations of the second user.
MaxPeerSends == 1
\* handleDownload invocations on the device.
MaxDownloads == 1
\* Logouts on the device.
MaxLogouts == 1
\* handleSend invocations on the device that are followed statement by
\* statement.
MaxRuns == 2
\* Transactions created on the key store that are followed request by request.
MaxTransactions == 4

\* ------------------------------------------------------------- identities

\* The user of the device, the second user, and the party operating the
\* relaying server, which owns key pairs but runs none of the client code.
Devices == {"alice"}
Peers == {"bob"}
Accounts == Devices \cup Peers
Users == Accounts \cup {"mallory"}
UserNo == [alice |-> 1, bob |-> 2, mallory |-> 3]

\* File contents offered by the file picker (the empty file included).
Files == {<< >>, <<104, 105>>}
FileNames == {<<110>>}
\* The file picked where one file is enough.
LongestFile == CHOOSE f \in Files : \A g \in Files : Len(g) <= Len(f)
\* The file the second user sends.
PeerFile == [name |-> <<112>>, content |-> <<80>>, picked |-> TRUE]

\* ---------------------------------------------------------- byte helpers

RECURSIVE Pow2(_)
Pow2(n) == IF n = 0 THEN 1 ELSE 2 * Pow2(n - 1)

\* b with bit i (0 = least significant) inverted.
FlipBit(b, i) ==
    IF (b \div Pow2(i)) % 2 = 1 THEN b - Pow2(i) ELSE b + Pow2(i)

FlipAt(s, p, i) == [s EXCEPT ![p] = FlipBit(s[p], i)]

RECURSIVE WeightedSum(_, _)
\* Sum of s[j] * (2j + 1) over the positions j >= from of s, modulo 256.  Every
\* weight is odd, so inverting one bit of one byte always changes the sum.
WeightedSum(s, from) ==
    IF from > Len(s) THEN 0
    ELSE (s[from] * (2 * from + 1) + WeightedSum(s, from + 1)) % 256

Ok(v) == [ok |-> TRUE, v |-> v]
Throw == [ok |-> FALSE, v |-> << >>]

\* ---------------------------------------------------------------- base64

\* Character codes: 0..63 are the base64 alphabet in its order, Pad is '='.
Pad == 64

RECURSIVE btoa(_)
btoa(b) ==
    IF Len(b) = 0 THEN << >>
    ELSE IF Len(b) = 1 THEN
        << b[1] \div 4, (b[1] % 4) * 16, Pad, Pad >>
    ELSE IF Len(b) = 2 THEN
        << b[1] \div 4, (b[1] % 4) * 16 + b[2] \div 16, (b[2] % 16) * 4, Pad >>
    ELSE
        << b[1] \div 4, (b[1] % 4) * 16 + b[2] \div 16,
           (b[2] % 16) * 4 + b[3] \div 64, b[3] % 64 >>
        \o btoa(SubSeq(b, 4, Len(b)))

arrayBufferToBase64(buffer) == btoa(buffer)

RECURSIVE DecodeSextets(_)
DecodeSextets(s) ==
    IF Len(s) < 2 THEN << >>
    ELSE IF Len(s) = 2 THEN << s[1] * 4 + s[2] \div 16 >>
    ELSE IF Len(s) = 3 THEN
        << s[1] * 4 + s[2] \div 16, (s[2] % 16) * 16 + s[3] \div 4 >>
    ELSE
        << s[1] * 4 + s[2] \div 16, (s[2] % 16) * 16 + s[3] \div 4,
           (s[3] % 4) * 64 + s[4] >>
        \o DecodeSextets(SubSeq(s, 5, Len(s)))

\* atob: the forgiving base64 decode.  One or two trailing '=' are dropped
\* when the length is a multiple of four; a remaining length of 1 modulo 4
\* or any character outside the alphabet throws.
atob(s) ==
    LET n == Len(s)
        stripped ==
            IF n > 0 /\ n % 4 = 0 /\ s[n] = Pad
            THEN IF s[n - 1] = Pad THEN SubSeq(s, 1, n - 2)
                 ELSE SubSeq(s, 1, n - 1)
            ELSE s
    IN  IF Len(stripped) % 4 = 1 THEN Throw
        ELSE IF \E i \in 1..Len(stripped) : stripped[i] \notin 0..63 THEN Throw
        ELSE Ok(DecodeSextets(stripped))

base64ToArrayBuffer(base64) == atob(base64)

RECURSIVE concatenateBuffers(_)
concatenateBuffers(buffers) ==
    IF Len(buffers) = 0 THEN << >>
    ELSE Head(buffers) \o concatenateBuffers(Tail(buffers))

\* ------------------------------------------------------------------ keys

\* Key material of the g-th pair user u generated for a purpose (0 encryption,
\* 1 signing).  A public and a private key belong together iff they carry the
\* same material.
KeyMat(u, g, purpose) == 16 * UserNo[u] + 2 * g + purpose
Generations == 1..(MaxKeyGen + 1)
AllMat == { KeyMat(u, g, p) : u \in Users, g \in Generations, p \in {0, 1} }
MatOwner(m) == CHOOSE u \in Users : UserNo[u] = m \div 16

generateKeyPair(u, g) ==
    [publicKey  |-> [type |-> "public",  alg |-> "RSA-OAEP", mat |-> KeyMat(u, g, 0)],
     privateKey |-> [type |-> "private", alg |-> "RSA-OAEP", mat |-> KeyMat(u, g, 0)]]

generateSigningKeyPair(u, g) ==
    [publicKey  |-> [type |-> "public",  alg |-> "RSA-PSS", mat |-> KeyMat(u, g, 1)],
     privateKey |-> [type |-> "private", alg |-> "RSA-PSS", mat |-> KeyMat(u, g, 1)]]

\* exportKey: the DER bytes.  Both formats open with a SEQUENCE (48); SPKI
\* continues with the algorithm SEQUENCE, PKCS8 with the version INTEGER (2).
\* The algorithm identifier is rsaEncryption for OAEP and PSS keys alike.
exportKey(format, key) ==
    IF format = "spki" THEN <<48, 48, key.mat>> ELSE <<48, 2, key.mat>>

\* importKey of DER bytes: throws unless the bytes have the asked format; the
\* algorithm of the imported key is the one asked for.
importKey(format, keyData, alg) ==
    IF Len(keyData) = 3 /\ keyData[1] = 48
       /\ keyData[2] = (IF format = "spki" THEN 48 ELSE 2)
       /\ keyData[3] \in AllMat
    THEN Ok([type |-> IF format = "spki" THEN "public" ELSE "private",
             alg |-> alg, mat |-> keyData[3]])
    ELSE Throw

exportPublicKey(key) == arrayBufferToBase64(exportKey("spki", key))
exportPrivateKey(key) == arrayBufferToBase64(exportKey("pkcs8", key))

importPublicKey(base64Key) ==
    LET keyData == base64ToArrayBuffer(base64Key)
    IN  IF keyData.ok THEN importKey("spki", keyData.v, "RSA-OAEP") ELSE Throw

importPrivateKey(base64Key) ==
    LET keyData == base64ToArrayBuffer(base64Key)
    IN  IF keyData.ok THEN importKey("pkcs8", keyData.v, "RSA-OAEP") ELSE Throw

importSigningPublicKey(base64Key) ==
    LET keyData == base64ToArrayBuffer(base64Key)
    IN  IF keyData.ok THEN importKey("spki", keyData.v, "RSA-PSS") ELSE Throw

importSigningPrivateKey(base64Key) ==
    LET keyData == base64ToArrayBuffer(base64Key)
    IN  IF keyData.ok THEN importKey("pkcs8", keyData.v, "RSA-PSS") ELSE Throw

\* ---------------------------------------------------------------- AES-GCM

AesKeyBits == 256
NonceLength == 12
AuthTagLength == 16

\* The raw bytes of the k-th AES key drawn.
RawAesKey(k) == [i \in 1..(AesKeyBits \div 8) |-> (k * 37 + i) % 256]
AesKeyOfRaw(raw) == ((raw[1] + 255) % 256) \div 37

\* The AES keys generateAESKey returns: the n-th call on the device, the n-th
\* call on the second user's device, the call of the server's operator.  No
\* two are the same key.
DeviceKey(n) == 2 * n - 1
PeerKey(n) == 2 * n
ForgerKey == PeerKey(0)

\* Nonces window.crypto.getRandomValues may return.
NonceSeeds == {7}
Nonces == { [i \in 1..NonceLength |-> (s + i) % 256] : s \in NonceSeeds }

\* Keystream byte i under (key, nonce): never 0, so every ciphertext byte
\* differs from its plaintext byte.
KeyStream(k, nonce, i) == 1 + ((k * 31 + WeightedSum(nonce, 1) + 7 * i) % 255)

\* The 16-byte authentication tag over key, nonce and ciphertext.
GcmTag(k, nonce, c) ==
    [i \in 1..AuthTagLength |->
        CASE i = 1 -> k % 256
          [] i = 2 -> Len(c) % 256
          [] i = 3 -> WeightedSum(c, 1)
          [] i = 4 -> Len(nonce) % 256
          [] i = 5 -> WeightedSum(nonce, 1)
          [] OTHER -> (k * 11 + i) % 256]

\* subtle.encrypt(AES-GCM): ciphertext with the tag appended.
encryptFile(file, aesKey, nonce) ==
    LET c == [i \in 1..Len(file) |-> (file[i] + KeyStream(aesKey, nonce, i)) % 256]
    IN  c \o GcmTag(aesKey, nonce, c)

\* subtle.decrypt(AES-GCM): throws unless the trailing tag authenticates.
decryptFile(encryptedData, aesKey, nonce) ==
    LET n == Len(encryptedData) - AuthTagLength
        c == SubSeq(encryptedData, 1, n)
        t == SubSeq(encryptedData, n + 1, Len(encryptedData))
    IN  IF n < 0 THEN Throw
        ELSE IF t # GcmTag(aesKey, nonce, c) THEN Throw
        ELSE Ok([i \in 1..n |-> (c[i] + 256 - KeyStream(aesKey, nonce, i)) % 256])

\* ------------------------------------------------------- RSA-OAEP, RSA-PSS

\* subtle.encrypt(RSA-OAEP) of the raw AES key: opens only under the private
\* key of the same material.
encryptAESKey(aesKey, receiverPublicKey) ==
    LET rawKey == RawAesKey(aesKey)
    IN  <<receiverPublicKey.mat>>
        \o [i \in 1..Len(rawKey) |-> (rawKey[i] + receiverPublicKey.mat) % 256]

decryptAESKey(encryptedAESKey, privateKey) ==
    LET n == Len(encryptedAESKey) - 1
        rawKey == [i \in 1..n |->
                     (encryptedAESKey[i + 1] + 256 - privateKey.mat) % 256]
    IN  IF n # AesKeyBits \div 8 THEN Throw
        ELSE IF encryptedAESKey[1] # privateKey.mat THEN Throw
        ELSE IF rawKey # RawAesKey(AesKeyOfRaw(rawKey)) THEN Throw
        ELSE Ok(AesKeyOfRaw(rawKey))

\* subtle.digest(SHA-256), modelled injective.
hashData(data) == <<Len(data) % 256>> \o data

\* subtle.sign(RSA-PSS): verifies only under the public key of the same material.
signData(data, privateKey) == <<privateKey.mat>> \o data

verifySignature(signature, data, publicKey) ==
    signature = <<publicKey.mat>> \o data

\* --------------------------------------------------------------- bundles

\* JSON.stringify({encryption, signing}): '{' encryption ',' signing '}'.
JSONstringify(encryption, signing) ==
    <<123>> \o encryption \o <<44>> \o signing \o <<125>>

\* The value `undefined` turned into a string where a string is expected.
Undefined == <<117>>

\* JSON.parse followed by the read of one property, as inside the try blocks
\* of handleSend and handleDownload: Throw when the text is not JSON or the
\* value read from is null; Undefined when the property is missing.
JSONfield(text, field) ==
    LET n == Len(text)
        isObject == n >= 3 /\ text[1] = 123 /\ text[n] = 125
                    /\ \E i \in 2..(n - 1) : text[i] = 44
        sep == CHOOSE i \in 2..(n - 1) :
                  text[i] = 44 /\ \A j \in 2..(i - 1) : text[j] # 44
        isNumber == n >= 1 /\ (\A i \in 1..n : text[i] \in 52..61)
                    /\ (n = 1 \/ text[1] # 52)
    IN  IF isObject THEN
            Ok(IF field = "encryption" THEN SubSeq(text, 2, sep - 1)
               ELSE SubSeq(text, sep + 1, n - 1))
        ELSE IF isNumber THEN Ok(Undefined)
        ELSE Throw

\* A faulty variant: no fallback, a text that is not JSON gives no key.
ReceiverEncryptionKeyStrict(publicKey) ==
    LET parsed == JSONfield(publicKey, "encryption")
    IN  IF parsed.ok THEN parsed.v ELSE Undefined

\* handleSend's decoding of the receiver's bundle: parsed.encryption, or the
\* whole string when JSON.parse (or the property read) throws.
ReceiverEncryptionKey(publicKey) ==
    LET parsed == JSONfield(publicKey, "encryption")
    IN  IF parsed.ok THEN parsed.v ELSE publicKey

\* handleDownload's decoding of the sender's key: parsed.signing, or the whole
\* string when JSON.parse (or the property read) throws.
SenderSigningKey(senderPublicKey) ==
    LET parsed == JSONfield(senderPublicKey, "signing")
    IN  IF parsed.ok THEN parsed.v ELSE senderPublicKey

\* ----------------------------------------------------------------- state

VARIABLES
    jwt,          \* localStorage 'jwt' is set, per device
    isLoggedIn,   \* AuthContext
    hasKeyPair,   \* AuthContext
    mountCheck,   \* AuthProvider's mount effect hasKeys().then(..) is pending
    keyStore,     \* the IndexedDB object store 'keys', per device
    clearPending, \* clearKeys() calls issued by logout and not yet run
    keyGen,       \* key pairs generated so far, per device
    loginOp,      \* the running handleCredentialResponse, per device
    idb,          \* the IndexedDB transactions on the store 'keys', per device
    currentView,  \* Dashboard
    sendUI,       \* the mounted SendFile component's state
    lookupOp,     \* the running handleLookupReceiver
    sendOp,       \* the running (or last finished) handleSend
    sendRuns,     \* the handleSend invocations followed statement by statement
    recvUI,       \* the mounted ReceiveFiles component's state
    inboxOp,      \* the running fetchInbox
    recvOp,       \* the running (or last finished) handleDownload
    saved,        \* files the browser saved on the device (a.click())
    serverKeys,   \* public key bundles received by POST /users/public-key
    uploads,      \* the envelopes received by POST /files/send, in order, each
                  \* with its sender, its plaintext and the output of
                  \* encryptFile it was cut from
    net,          \* every request body handed to fetch
    count         \* handler invocations so far, against the bounds

authVars == <<jwt, isLoggedIn, hasKeyPair, mountCheck, keyStore, clearPending,
              keyGen, loginOp, currentView, idb>>
sendVars == <<sendUI, lookupOp, sendOp, sendRuns>>
recvVars == <<recvUI, inboxOp, recvOp, saved>>
serverVars == <<serverKeys, uploads>>
vars == <<authVars, sendVars, recvVars, serverVars, net, count>>

\* A value that is absent: undefined, null or the empty string.
Absent == << >>

NoKeys == [encryptionPublicKey |-> Absent, encryptionPrivateKey |-> Absent,
           signingPublicKey |-> Absent, signingPrivateKey |-> Absent]

NoData == [userId |-> "", publicKey |-> Absent]
NoFile == [name |-> Absent, content |-> Absent, picked |-> FALSE]
NoInboxFile == [fileId |-> 0, fileName |-> Absent, senderId |-> ""]

NoPayload == [receiverId |-> "", encryptedAESKey |-> Absent, nonce |-> Absent,
              authTag |-> Absent, signature |-> Absent, senderPublicKey |-> Absent,
              file |-> Absent, fileName |-> Absent]

NoDownload == [encryptedFile |-> Absent, encryptedAESKey |-> Absent,
               nonce |-> Absent, authTag |-> Absent, signature |-> Absent,
               senderPublicKey |-> Absent, fileName |-> Absent]

\* lookedUp is the email whose lookup produced receiverData.
SendUIInit == [state |-> "lookup", receiverEmail |-> "", receiverData |-> NoData,
               lookedUp |-> "", selectedFile |-> NoFile, error |-> ""]

RecvUIInit == [state |-> "list", files |-> {}, loading |-> TRUE, error |-> "",
               selectedFile |-> NoInboxFile]

\* ------------------------------------------------------------ key storage

\* storeKeys: one readwrite transaction putting the four keys.
storeKeys(keys) == keys

\* A faulty variant: getKeys returns the record it read whatever it holds.
getKeysUnchecked(store) == Ok(store)

\* getKeys: one readonly transaction; null unless all four values are truthy.
getKeys(store) ==
    IF store.encryptionPublicKey # Absent /\ store.encryptionPrivateKey # Absent
       /\ store.signingPublicKey # Absent /\ store.signingPrivateKey # Absent
    THEN Ok(store)
    ELSE Throw

hasKeys(store) == getKeys(store).ok

\* The four exported keys of the g-th key pairs generated on device d.
ExportedKeys(d, g) ==
    LET encryptionKeyPair == generateKeyPair(d, g)
        signingKeyPair == generateSigningKeyPair(d, g)
    IN  [encryptionPublicKey  |-> exportPublicKey(encryptionKeyPair.publicKey),
         encryptionPrivateKey |-> exportPrivateKey(encryptionKeyPair.privateKey),
         signingPublicKey     |-> exportPublicKey(signingKeyPair.publicKey),
         signingPrivateKey    |-> exportPrivateKey(signingKeyPair.privateKey)]

\* A faulty variant: the private encryption key is put in the bundle.
combinedPublicKeyLeaks(keys) ==
    JSONstringify(keys.encryptionPrivateKey, keys.signingPublicKey)

\* The body of POST /users/public-key built by the login handler.
combinedPublicKey(keys) ==
    JSONstringify(keys.encryptionPublicKey, keys.signingPublicKey)

\* A request with a body as the network sees it: its kind and the strings
\* and byte buffers of its body.  (The GET requests - lookup, inbox, download -
\* have no body.)
Request(kind, parts) == [kind |-> kind, parts |-> parts]

\* The credential Google hands to the login handler.
Credential == <<103>>

\* ------------------------------------------------------------- handleSend

NoKey == [type |-> "", alg |-> "", mat |-> 0]

\* The locals of one handleSend invocation after getKeys returned.
SendEnv(keys, receiverData, selectedFile, aesKey, nonce) ==
    [keys |-> keys, receiverData |-> receiverData, selectedFile |-> selectedFile,
     newKey |-> aesKey, newNonce |-> nonce,
     fileBuffer |-> Absent, aesKey |-> 0, nonce |-> Absent,
     encryptedFileBuffer |-> Absent, ciphertext |-> Absent, authTag |-> Absent,
     receiverEncryptionKey |-> Absent, receiverPublicKey |-> NoKey,
     encryptedAESKey |-> Absent, dataToSign |-> Absent, hash |-> Absent,
     signingPrivateKey |-> NoKey, signature |-> Absent, payload |-> NoPayload,
     thrown |-> FALSE, error |-> "", log |-> << >>]

\* A faulty variant: the exception is swallowed and the handler goes on.
RaiseIgnored(e, message) == e

Raise(e, message) == [e EXCEPT !.thrown = TRUE, !.error = message]

\* A faulty variant: the file part is the plaintext read from the picker.
SendFilePayloadPlain(e) ==
    [receiverId      |-> e.receiverData.userId,
     encryptedAESKey |-> arrayBufferToBase64(e.encryptedAESKey),
     nonce           |-> arrayBufferToBase64(e.nonce),
     authTag         |-> arrayBufferToBase64(e.authTag),
     signature       |-> arrayBufferToBase64(e.signature),
     senderPublicKey |-> e.keys.signingPublicKey,
     file            |-> e.fileBuffer,
     fileName        |-> e.selectedFile.name]

\* A variant: the sender key is the bundle that was registered at login.
SendFilePayloadBundle(e) ==
    [receiverId      |-> e.receiverData.userId,
     encryptedAESKey |-> arrayBufferToBase64(e.encryptedAESKey),
     nonce           |-> arrayBufferToBase64(e.nonce),
     authTag         |-> arrayBufferToBase64(e.authTag),
     signature       |-> arrayBufferToBase64(e.signature),
     senderPublicKey |-> combinedPublicKey(e.keys),
     file            |-> e.ciphertext,
     fileName        |-> e.selectedFile.name]

\* The argument of sendFile (POST /files/send) assembled by handleSend.
SendFilePayload(e) ==
    [receiverId      |-> e.receiverData.userId,
     encryptedAESKey |-> arrayBufferToBase64(e.encryptedAESKey),
     nonce           |-> arrayBufferToBase64(e.nonce),
     authTag         |-> arrayBufferToBase64(e.authTag),
     signature       |-> arrayBufferToBase64(e.signature),
     senderPublicKey |-> e.keys.signingPublicKey,
     file            |-> e.ciphertext,
     fileName        |-> e.selectedFile.name]

\* A faulty variant: the nonce is hashed before the ciphertext.
SendDataToSignNonceFirst(e) ==
    concatenateBuffers(<<e.nonce, e.ciphertext, e.authTag>>)

\* The buffers handleSend hashes and signs, in order.
SendDataToSign(e) == concatenateBuffers(<<e.ciphertext, e.nonce, e.authTag>>)

\* Where handleSend cuts the AES-GCM output into ciphertext and tag.
\* A faulty variant: the output of encryptFile is cut 12 bytes from its end.
SendSplitAtNonceLength(encryptedFile) ==
    [ciphertext |-> SubSeq(encryptedFile, 1, Len(encryptedFile) - 12),
     authTag |-> SubSeq(encryptedFile, Len(encryptedFile) - 11,
                        Len(encryptedFile))]

SendSplit(encryptedFile) ==
    [ciphertext |-> SubSeq(encryptedFile, 1, Len(encryptedFile) - AuthTagLength),
     authTag |-> SubSeq(encryptedFile, Len(encryptedFile) - AuthTagLength + 1,
                        Len(encryptedFile))]

\* One statement group of handleSend's try block.
SendStep(step, e) ==
    CASE step = "arrayBuffer" ->
            [e EXCEPT !.fileBuffer = e.selectedFile.content]
      [] step = "generateAESKey" ->
            [e EXCEPT !.aesKey = e.newKey]
      [] step = "generateNonce" ->
            [e EXCEPT !.nonce = e.newNonce]
      [] step = "encryptFile" ->
            LET out == encryptFile(e.fileBuffer, e.aesKey, e.nonce)
                cut == SendSplit(out)
            IN  [e EXCEPT !.encryptedFileBuffer = out,
                          !.ciphertext = cut.ciphertext,
                          !.authTag = cut.authTag]
      [] step = "parseReceiverKey" ->
            [e EXCEPT !.receiverEncryptionKey =
                ReceiverEncryptionKey(e.receiverData.publicKey)]
      [] step = "importPublicKey" ->
            LET k == importPublicKey(e.receiverEncryptionKey)
            IN  IF k.ok THEN [e EXCEPT !.receiverPublicKey = k.v]
                ELSE Raise(e, "DataError")
      [] step = "encryptAESKey" ->
            [e EXCEPT !.encryptedAESKey = encryptAESKey(e.aesKey, e.receiverPublicKey)]
      [] step = "hashData" ->
            LET data == SendDataToSign(e)
            IN  [e EXCEPT !.dataToSign = data, !.hash = hashData(data)]
      [] step = "importSigningPrivateKey" ->
            LET k == importSigningPrivateKey(e.keys.signingPrivateKey)
            IN  IF k.ok THEN [e EXCEPT !.signingPrivateKey = k.v]
                ELSE Raise(e, "DataError")
      [] step = "signData" ->
            [e EXCEPT !.signature = signData(e.hash, e.signingPrivateKey)]
      [] step = "sendFile" ->
            [e EXCEPT !.payload = SendFilePayload(e)]

\* A variant order: the digest is computed and signed before the content key
\* is wrapped.
SendStepsSignFirst ==
    << "arrayBuffer", "generateAESKey", "generateNonce", "encryptFile",
       "hashData", "importSigningPrivateKey", "signData",
       "parseReceiverKey", "importPublicKey", "encryptAESKey", "sendFile" >>

\* The statement groups of handleSend's try block after getKeys, in the order
\* of the code.
SendSteps ==
    << "arrayBuffer", "generateAESKey", "generateNonce", "encryptFile",
       "parseReceiverKey", "importPublicKey", "encryptAESKey",
       "hashData", "importSigningPrivateKey", "signData", "sendFile" >>

RECURSIVE RunSend(_, _)
\* Runs the steps in order until one throws.
RunSend(steps, e) ==
    IF steps = << >> \/ e.thrown THEN e
    ELSE RunSend(Tail(steps),
                 SendStep(Head(steps), [e EXCEPT !.log = Append(@, Head(steps))]))

\* sendFile: the parts of the multipart body.
sendFileParts(payload) ==
    << payload.encryptedAESKey, payload.nonce, payload.authTag,
       payload.signature, payload.senderPublicKey, payload.file,
       payload.fileName >>

\* --------------------------------------------------------- handleDownload

DefaultFileName == <<100>>

\* A response to GET /files/download/:fileId carrying envelope env: either a
\* JSON body with the file base64-encoded, or the file as the body and the
\* other fields in the X-* headers.
DownloadResponse(env, shape) ==
    [ok |-> TRUE, contentType |-> shape,
     data |-> [env EXCEPT !.encryptedFile =
                  IF shape = "json" THEN btoa(env.encryptedFile) ELSE Absent],
     blob |-> IF shape = "json" THEN Absent ELSE env.encryptedFile]

FailedResponse ==
    [ok |-> FALSE, contentType |-> "json", data |-> NoDownload, blob |-> Absent]

\* A faulty variant: the JSON branch hands on the file as it came, encoded.
downloadFileEncoded(response) ==
    IF ~response.ok THEN Throw
    ELSE Ok([response.data EXCEPT !.encryptedFile =
                IF response.contentType = "json" THEN @ ELSE response.blob])

\* downloadFile, from the response on.
downloadFile(response) ==
    IF ~response.ok THEN Throw
    ELSE IF response.contentType = "json" THEN
        LET fileBlob == atob(response.data.encryptedFile)
        IN  IF ~fileBlob.ok THEN Throw
            ELSE Ok([encryptedFile   |-> fileBlob.v,
                     encryptedAESKey |-> response.data.encryptedAESKey,
                     nonce           |-> response.data.nonce,
                     authTag         |-> response.data.authTag,
                     signature       |-> response.data.signature,
                     senderPublicKey |-> response.data.senderPublicKey,
                     fileName        |-> response.data.fileName])
    ELSE
        Ok([encryptedFile   |-> response.blob,
            encryptedAESKey |-> response.data.encryptedAESKey,
            nonce           |-> response.data.nonce,
            authTag         |-> response.data.authTag,
            signature       |-> response.data.signature,
            senderPublicKey |-> response.data.senderPublicKey,
            fileName        |-> IF response.data.fileName = Absent
                                THEN DefaultFileName
                                ELSE response.data.fileName])

SignatureFailed == "Signature verification failed - file may be tampered or not from claimed sender"

\* The locals of one handleDownload invocation after downloadFile returned.
RecvEnv(keys, file, downloadedFile) ==
    [keys |-> keys, file |-> file, downloadedFile |-> downloadedFile,
     senderSigningKey |-> Absent, signingPublicKey |-> NoKey,
     encryptedFileBuffer |-> Absent, nonce |-> Absent, authTag |-> Absent,
     dataToVerify |-> Absent, hash |-> Absent, signature |-> Absent,
     isValid |-> FALSE, encryptedAESKey |-> Absent, privateKey |-> NoKey,
     aesKey |-> 0, ciphertextWithTag |-> Absent, decryptedBuffer |-> Absent,
     savedFile |-> NoFile,
     thrown |-> FALSE, error |-> "", log |-> << >>]

\* The buffers handleDownload hashes and verifies, in order.
RecvDataToVerify(e) ==
    concatenateBuffers(<<e.encryptedFileBuffer, e.nonce, e.authTag>>)

\* A faulty variant: the result of verifySignature is not tested.
RecvRejectsNothing(isValid) == FALSE

\* The test handleDownload makes on the result of verifySignature.
RecvRejects(isValid) == ~isValid

\* One statement group of handleDownload's try block.
RecvStep(step, e) ==
    CASE step = "parseSenderKey" ->
            [e EXCEPT !.senderSigningKey =
                SenderSigningKey(e.downloadedFile.senderPublicKey)]
      [] step = "importSigningPublicKey" ->
            LET k == importSigningPublicKey(e.senderSigningKey)
            IN  IF k.ok THEN [e EXCEPT !.signingPublicKey = k.v]
                ELSE Raise(e, "DataError")
      [] step = "decodeNonceAndTag" ->
            LET n == base64ToArrayBuffer(e.downloadedFile.nonce)
                t == base64ToArrayBuffer(e.downloadedFile.authTag)
            IN  IF n.ok /\ t.ok
                THEN [e EXCEPT !.encryptedFileBuffer = e.downloadedFile.encryptedFile,
                               !.nonce = n.v, !.authTag = t.v]
                ELSE Raise(e, "InvalidCharacterError")
      [] step = "hashData" ->
            LET data == RecvDataToVerify(e)
            IN  [e EXCEPT !.dataToVerify = data, !.hash = hashData(data)]
      [] step = "verifySignature" ->
            LET sig == base64ToArrayBuffer(e.downloadedFile.signature)
            IN  IF sig.ok
                THEN [e EXCEPT !.signature = sig.v,
                               !.isValid = verifySignature(sig.v, e.hash,
                                                           e.signingPublicKey)]
                ELSE Raise(e, "InvalidCharacterError")
      [] step = "checkValid" ->
            IF RecvRejects(e.isValid) THEN Raise(e, SignatureFailed) ELSE e
      [] step = "importPrivateKey" ->
            LET w == base64ToArrayBuffer(e.downloadedFile.encryptedAESKey)
                k == importPrivateKey(e.keys.encryptionPrivateKey)
            IN  IF ~w.ok THEN Raise(e, "InvalidCharacterError")
                ELSE IF ~k.ok THEN Raise(e, "DataError")
                ELSE [e EXCEPT !.encryptedAESKey = w.v, !.privateKey = k.v]
      [] step = "decryptAESKey" ->
            LET k == decryptAESKey(e.encryptedAESKey, e.privateKey)
            IN  IF k.ok THEN [e EXCEPT !.aesKey = k.v]
                ELSE Raise(e, "OperationError")
      [] step = "decryptFile" ->
            LET joined == e.encryptedFileBuffer \o e.authTag
                p == decryptFile(joined, e.aesKey, e.nonce)
            IN  IF p.ok THEN [e EXCEPT !.ciphertextWithTag = joined,
                                       !.decryptedBuffer = p.v]
                ELSE Raise([e EXCEPT !.ciphertextWithTag = joined], "OperationError")
      [] step = "saveFile" ->
            [e EXCEPT !.savedFile =
                [name |-> IF e.downloadedFile.fileName # Absent
                          THEN e.downloadedFile.fileName ELSE e.file.fileName,
                 content |-> e.decryptedBuffer, picked |-> TRUE]]

\* A faulty variant: the link is clicked a second time at the end.
RecvStepsSaveTwice ==
    << "parseSenderKey", "importSigningPublicKey", "decodeNonceAndTag",
       "hashData", "verifySignature", "checkValid", "importPrivateKey",
       "decryptAESKey", "decryptFile", "saveFile", "saveFile" >>

\* The statement groups of handleDownload's try block after downloadFile, in
\* the order of the code.
RecvSteps ==
    << "parseSenderKey", "importSigningPublicKey", "decodeNonceAndTag",
       "hashData", "verifySignature", "checkValid", "importPrivateKey",
       "decryptAESKey", "decryptFile", "saveFile" >>

RECURSIVE RunRecv(_, _)
\* Runs the steps in order until one throws.
RunRecv(steps, e) ==
    IF steps = << >> \/ e.thrown THEN e
    ELSE RunRecv(Tail(steps),
                 RecvStep(Head(steps), [e EXCEPT !.log = Append(@, Head(steps))]))

\* ------------------------------------------------------------ initial state

\* no is the number of the invocation, upload the place its envelope took in
\* the server's store (or 0), imported the string handed to importPublicKey
\* and the key it returned.
IdleSend == [pc |-> "idle", attached |-> FALSE, no |-> 0, receiverData |-> NoData,
             email |-> "", selectedFile |-> NoFile, log |-> << >>,
             imported |-> [text |-> Absent, key |-> NoKey],
             upload |-> 0, hash |-> Absent, outcome |-> "", error |-> ""]

\* origin is the upload the downloaded envelope is an unmodified copy of (or
\* 0), tampered that it is an upload with a bit of its ciphertext, nonce or
\* tag inverted, signers the users who sent (and so signed) its ciphertext,
\* nonce and tag, digestOfReceived that the digest verified was that of the
\* received ciphertext, nonce and tag, senderPublicKey the sender key that was
\* received, imported the string handed to importSigningPublicKey and the key
\* it returned, signature the signature text that was received, received the
\* wrapped key and the file name that downloadFile returned and whether the
\* ciphertext, nonce, authTag and signature it returned are those stored for
\* the file,
\* ciphertextWithTag the buffer handed to decryptFile.
IdleRecv == [pc |-> "idle", attached |-> FALSE, file |-> NoInboxFile,
             keys |-> NoKeys, origin |-> 0, tampered |-> FALSE, signers |-> {},
             log |-> << >>, senderPublicKey |-> Absent,
             imported |-> [text |-> Absent, key |-> NoKey],
             digestOfReceived |-> FALSE, isValid |-> FALSE, verifiedWith |-> 0,
             signature |-> Absent, ciphertextWithTag |-> Absent,
             received |-> [signedPartAsStored |-> FALSE,
                           encryptedAESKey |-> Absent, fileName |-> Absent],
             savedFile |-> NoFile, outcome |-> "", error |-> ""]

\* runs are the invocations so far, drawn is the number of keys generateAESKey
\* has returned, calls are the calls of encryptFile so far, in order.
NoRuns == [runs |-> << >>, drawn |-> 0, calls |-> << >>]

\* txs are the transactions created and not yet complete, in the order of
\* their creation, made is the number created so far, got are the values
\* getKeys has resolved with.
NoTransactions == [txs |-> << >>, made |-> 0, got |-> {}]

Init ==
    /\ jwt = [d \in Devices |-> FALSE]
    /\ isLoggedIn = [d \in Devices |-> FALSE]
    /\ hasKeyPair = [d \in Devices |-> FALSE]
    /\ mountCheck = [d \in Devices |-> TRUE]
    /\ keyStore = [d \in Devices |-> NoKeys]
    /\ clearPending = [d \in Devices |-> FALSE]
    /\ idb = [d \in Devices |-> NoTransactions]
    /\ keyGen = [d \in Devices |-> 0]
    /\ loginOp = [d \in Devices |-> [pc |-> "idle", gen |-> 0]]
    /\ currentView = [d \in Devices |-> "dashboard"]
    /\ sendUI = [d \in Devices |-> SendUIInit]
    /\ lookupOp = [d \in Devices |-> [pc |-> "idle", email |-> ""]]
    /\ sendOp = [d \in Devices |-> IdleSend]
    /\ sendRuns = [d \in Devices |-> NoRuns]
    /\ recvUI = [d \in Devices |-> RecvUIInit]
    /\ inboxOp = [d \in Devices |-> "idle"]
    /\ recvOp = [d \in Devices |-> IdleRecv]
    /\ saved = [d \in Devices |-> {}]
    /\ serverKeys = [u \in Accounts |->
                        IF u \in Peers THEN combinedPublicKey(ExportedKeys(u, 1))
                        ELSE Absent]
    /\ uploads = << >>
    /\ net = {}
    /\ count = [sends |-> 0, peerSends |-> 0, downloads |-> 0, logouts |-> 0]

\* ---------------------------------------------------------------- rendering

\* The invocations in runs after their component was unmounted.
Detached(runs) == [i \in DOMAIN runs |-> [runs[i] EXCEPT !.attached = FALSE]]

\* A faulty variant: Dashboard renders its views without testing hasKeyPair.
ShownUngated(d, v) == isLoggedIn[d] /\ currentView[d] = v

\* AppContent and Dashboard: the component of view v is rendered.
Shown(d, v) == isLoggedIn[d] /\ hasKeyPair[d] /\ currentView[d] = v
ShownNext(d, v) == isLoggedIn'[d] /\ hasKeyPair'[d] /\ currentView'[d] = v

\* What a change of isLoggedIn, hasKeyPair or currentView does to the SendFile
\* and ReceiveFiles components: a component no longer rendered is unmounted
\* (its state is gone, its running handlers go on without it) and a component
\* newly rendered is mounted (ReceiveFiles then calls fetchInbox).
Rerender(d) ==
    LET keepSend == Shown(d, "send") /\ ShownNext(d, "send")
        keepRecv == Shown(d, "receive") /\ ShownNext(d, "receive")
        mountRecv == ~Shown(d, "receive") /\ ShownNext(d, "receive")
    IN  /\ sendUI' = IF keepSend THEN sendUI ELSE [sendUI EXCEPT ![d] = SendUIInit]
        /\ lookupOp' = IF keepSend THEN lookupOp
                       ELSE [lookupOp EXCEPT ![d] = [pc |-> "idle", email |-> ""]]
        /\ sendOp' = IF keepSend THEN sendOp
                     ELSE [sendOp EXCEPT ![d].attached = FALSE]
        /\ recvUI' = IF keepRecv THEN recvUI ELSE [recvUI EXCEPT ![d] = RecvUIInit]
        /\ recvOp' = IF keepRecv THEN recvOp
                     ELSE [recvOp EXCEPT ![d].attached = FALSE]
        /\ inboxOp' = IF mountRecv THEN [inboxOp EXCEPT ![d] = "wait"]
                      ELSE IF keepRecv THEN inboxOp
                      ELSE [inboxOp EXCEPT ![d] = "idle"]
        /\ sendRuns' = IF keepSend THEN sendRuns
                       ELSE [sendRuns EXCEPT ![d].runs = Detached(@)]
        /\ UNCHANGED <<saved, net>>

\* ------------------------------------------------- AuthProvider and Login

\* The mount effect's hasKeys().then(setHasKeyPair) settles.
MountCheck(d) ==
    /\ mountCheck[d]
    /\ mountCheck' = [mountCheck EXCEPT ![d] = FALSE]
    /\ hasKeyPair' = [hasKeyPair EXCEPT ![d] = hasKeys(keyStore[d])]
    /\ UNCHANGED <<idb, jwt, isLoggedIn, keyStore, clearPending, keyGen,
                   loginOp, currentView, serverVars, count>>
    /\ Rerender(d)

\* Google hands a credential to handleCredentialResponse: authGoogle is sent.
LoginStart(d) ==
    /\ ~isLoggedIn[d]
    /\ loginOp[d].pc = "idle"
    /\ loginOp' = [loginOp EXCEPT ![d].pc = "auth"]
    /\ net' = net \cup {Request("auth", <<Credential>>)}
    /\ UNCHANGED <<idb, jwt, isLoggedIn, hasKeyPair, mountCheck, keyStore,
                   clearPending, keyGen, currentView, sendVars, recvVars,
                   serverVars, count>>

\* authGoogle fails: the catch block reports 'Login failed'.
LoginAuthFails(d) ==
    /\ loginOp[d].pc = "auth"
    /\ loginOp' = [loginOp EXCEPT ![d].pc = "idle"]
    /\ UNCHANGED <<idb, jwt, isLoggedIn, hasKeyPair, mountCheck, keyStore,
                   clearPending, keyGen, currentView, sendVars, recvVars,
                   serverVars, net, count>>

\* authGoogle returns: login(token); a new user generates and exports the key
\* pairs and calls storeKeys, an existing user calls hasKeys.
LoginAuthReturns(d, isNewUser) ==
    /\ loginOp[d].pc = "auth"
    /\ isNewUser => keyGen[d] < MaxKeyGen
    /\ jwt' = [jwt EXCEPT ![d] = TRUE]
    /\ isLoggedIn' = [isLoggedIn EXCEPT ![d] = TRUE]
    /\ keyGen' = IF isNewUser THEN [keyGen EXCEPT ![d] = @ + 1] ELSE keyGen
    /\ loginOp' = [loginOp EXCEPT ![d] =
                      IF isNewUser THEN [pc |-> "store", gen |-> keyGen[d] + 1]
                      ELSE [pc |-> "hasKeys", gen |-> @.gen]]
    /\ UNCHANGED <<idb, hasKeyPair, mountCheck, keyStore, clearPending,
                   currentView, serverVars, count>>
    /\ Rerender(d)

\* storeKeys completes and uploadPublicKey is sent.
LoginStoreKeys(d) ==
    /\ loginOp[d].pc = "store"
    /\ LET keys == ExportedKeys(d, loginOp[d].gen)
       IN  /\ keyStore' = [keyStore EXCEPT ![d] = storeKeys(keys)]
           /\ net' = net \cup {Request("publicKey", <<combinedPublicKey(keys)>>)}
    /\ loginOp' = [loginOp EXCEPT ![d].pc = "upload"]
    /\ UNCHANGED <<idb, jwt, isLoggedIn, hasKeyPair, mountCheck, clearPending,
                   keyGen, currentView, sendVars, recvVars, serverVars, count>>

\* The server receives the POST /users/public-key of uploadPublicKey and
\* registers the bundle; its response is on the way.
PublicKeyRegistered(d) ==
    /\ loginOp[d].pc = "upload"
    /\ serverKeys' = [serverKeys EXCEPT
                         ![d] = combinedPublicKey(ExportedKeys(d, loginOp[d].gen))]
    /\ loginOp' = [loginOp EXCEPT ![d].pc = "uploaded"]
    /\ UNCHANGED <<idb, jwt, isLoggedIn, hasKeyPair, mountCheck, keyStore,
                   clearPending, keyGen, currentView, sendVars, recvVars,
                   uploads, net, count>>

\* uploadPublicKey returns: setHasKeyPair(true).
LoginUploadReturns(d) ==
    /\ loginOp[d].pc = "uploaded"
    /\ loginOp' = [loginOp EXCEPT ![d].pc = "idle"]
    /\ hasKeyPair' = [hasKeyPair EXCEPT ![d] = TRUE]
    /\ UNCHANGED <<idb, jwt, isLoggedIn, mountCheck, keyStore, clearPending,
                   keyGen, currentView, serverVars, count>>
    /\ Rerender(d)

\* uploadPublicKey fails, the request refused or lost or its response lost:
\* the catch block reports 'Login failed'.
LoginUploadFails(d) ==
    /\ loginOp[d].pc \in {"upload", "uploaded"}
    /\ loginOp' = [loginOp EXCEPT ![d].pc = "idle"]
    /\ UNCHANGED <<idb, jwt, isLoggedIn, hasKeyPair, mountCheck, keyStore,
                   clearPending, keyGen, currentView, sendVars, recvVars,
                   serverVars, net, count>>

\* A variant: an existing user without local keys is given new ones.
LoginHasKeysProvisions(d) ==
    /\ loginOp[d].pc = "hasKeys"
    /\ loginOp' = [loginOp EXCEPT ![d].pc = "idle"]
    /\ hasKeyPair' = [hasKeyPair EXCEPT ![d] = TRUE]
    /\ keyStore' = IF hasKeys(keyStore[d]) THEN keyStore
                   ELSE [keyStore EXCEPT ![d] = storeKeys(ExportedKeys(d, 1))]
    /\ UNCHANGED <<idb, jwt, isLoggedIn, mountCheck, clearPending, keyGen,
                   currentView, serverVars, count>>
    /\ Rerender(d)

\* The existing user's hasKeys() settles: setHasKeyPair(keysExist).
LoginHasKeys(d) ==
    /\ loginOp[d].pc = "hasKeys"
    /\ loginOp' = [loginOp EXCEPT ![d].pc = "idle"]
    /\ hasKeyPair' = [hasKeyPair EXCEPT ![d] = hasKeys(keyStore[d])]
    /\ UNCHANGED <<idb, jwt, isLoggedIn, mountCheck, keyStore, clearPending,
                   keyGen, currentView, serverVars, count>>
    /\ Rerender(d)

\* logout: clearToken, clearKeys (not awaited), setIsLoggedIn(false),
\* setHasKeyPair(false).  The button is on the dashboard and on the 'Keys Not
\* Found' screen.
Logout(d) ==
    /\ isLoggedIn[d]
    /\ ~hasKeyPair[d] \/ currentView[d] = "dashboard"
    /\ count.logouts < MaxLogouts
    /\ count' = [count EXCEPT !.logouts = @ + 1]
    /\ jwt' = [jwt EXCEPT ![d] = FALSE]
    /\ clearPending' = [clearPending EXCEPT ![d] = TRUE]
    /\ isLoggedIn' = [isLoggedIn EXCEPT ![d] = FALSE]
    /\ hasKeyPair' = [hasKeyPair EXCEPT ![d] = FALSE]
    /\ currentView' = [currentView EXCEPT ![d] = "dashboard"]
    /\ UNCHANGED <<idb, mountCheck, keyStore, keyGen, loginOp, serverVars>>
    /\ Rerender(d)

\* The transaction of a clearKeys() call runs.
ClearKeysRuns(d) ==
    /\ clearPending[d]
    /\ clearPending' = [clearPending EXCEPT ![d] = FALSE]
    /\ keyStore' = [keyStore EXCEPT ![d] = NoKeys]
    /\ UNCHANGED <<idb, jwt, isLoggedIn, hasKeyPair, mountCheck, keyGen,
                   loginOp, currentView, sendVars, recvVars, serverVars, net,
                   count>>

\* ------------------------------------------- key storage, request by request

\* The keys of the object store in the order storeKeys puts and getKeys gets
\* them.
KeyNames == << "encryptionPublicKey", "encryptionPrivateKey",
              "signingPublicKey", "signingPrivateKey" >>

\* The requests a transaction of storeKeys, getKeys or clearKeys places.
Requests(kind) == IF kind = "clearKeys" THEN 1 ELSE Len(KeyNames)

\* A faulty variant: transactions on the same store run without waiting for
\* each other.
TransactionStartsAnyTime(txs, i) == TRUE

\* IndexedDB's order of transactions with the same scope: a readonly
\* transaction (getKeys) runs when every transaction created before it and not
\* yet complete is readonly; a readwrite transaction (storeKeys, clearKeys)
\* runs when no transaction created before it is still incomplete.
TransactionStarted(txs, i) ==
    IF txs[i].kind = "getKeys"
    THEN \A j \in 1..(i - 1) : txs[j].kind = "getKeys"
    ELSE i = 1

\* storeKeys, getKeys or clearKeys creates its transaction and places its
\* requests; keys are the keys storeKeys was called with.
TransactionBegins(d, kind, keys) ==
    /\ idb[d].made < MaxTransactions
    /\ idb' = [idb EXCEPT ![d].made = @ + 1,
                          ![d].txs = Append(@, [kind |-> kind, keys |-> keys,
                                                pos |-> 0, read |-> NoKeys])]
    /\ UNCHANGED <<jwt, isLoggedIn, hasKeyPair, mountCheck, keyStore,
                   clearPending, keyGen, loginOp, currentView, sendVars,
                   recvVars, serverVars, net, count>>

\* The next request of transaction i runs: a put, a get or the clear.
RequestRuns(d, i) ==
    LET tx == idb[d].txs[i]
        name == KeyNames[tx.pos + 1]
    IN  /\ TransactionStarted(idb[d].txs, i)
        /\ tx.pos < Requests(tx.kind)
        /\ keyStore' = CASE tx.kind = "storeKeys" ->
                               [keyStore EXCEPT ![d][name] = tx.keys[name]]
                         [] tx.kind = "clearKeys" ->
                               [keyStore EXCEPT ![d] = NoKeys]
                         [] tx.kind = "getKeys" -> keyStore
        /\ idb' = [idb EXCEPT ![d].txs[i] =
                      [tx EXCEPT !.pos = @ + 1,
                                 !.read = IF tx.kind = "getKeys"
                                          THEN [@ EXCEPT ![name] = keyStore[d][name]]
                                          ELSE @]]
        /\ UNCHANGED <<jwt, isLoggedIn, hasKeyPair, mountCheck, clearPending,
                       keyGen, loginOp, currentView, sendVars, recvVars,
                       serverVars, net, count>>

\* Transaction i completes: oncomplete resolves the promise, getKeys with the
\* four results or with null.
TransactionCompletes(d, i) ==
    LET tx == idb[d].txs[i]
        txs == idb[d].txs
    IN  /\ TransactionStarted(txs, i)
        /\ tx.pos = Requests(tx.kind)
        /\ idb' = [idb EXCEPT
                      ![d].txs = SubSeq(txs, 1, i - 1) \o SubSeq(txs, i + 1, Len(txs)),
                      ![d].got = IF tx.kind = "getKeys"
                                 THEN @ \cup {getKeys(tx.read)} ELSE @]
        /\ UNCHANGED <<jwt, isLoggedIn, hasKeyPair, mountCheck, keyStore,
                       clearPending, keyGen, loginOp, currentView, sendVars,
                       recvVars, serverVars, net, count>>

\* ---------------------------------------------------------------- Dashboard

\* The Send or the Receive card is clicked.
OpenView(d, v) ==
    /\ Shown(d, "dashboard")
    /\ currentView' = [currentView EXCEPT ![d] = v]
    /\ UNCHANGED <<idb, jwt, isLoggedIn, hasKeyPair, mountCheck, keyStore,
                   clearPending, keyGen, loginOp, serverVars, count>>
    /\ Rerender(d)

\* onBack of SendFile or ReceiveFiles.
Back(d) ==
    /\ Shown(d, "send") \/ Shown(d, "receive")
    /\ currentView' = [currentView EXCEPT ![d] = "dashboard"]
    /\ UNCHANGED <<idb, jwt, isLoggedIn, hasKeyPair, mountCheck, keyStore,
                   clearPending, keyGen, loginOp, serverVars, count>>
    /\ Rerender(d)

\* ----------------------------------------------------------------- SendFile

\* The addresses typed into the receiver email input.
Emails == Peers

\* onChange of the email input.
TypeEmail(d, email) ==
    /\ Shown(d, "send")
    /\ sendUI[d].state = "lookup"
    /\ sendUI[d].receiverEmail # email
    /\ sendUI' = [sendUI EXCEPT ![d].receiverEmail = email]
    /\ UNCHANGED <<authVars, lookupOp, sendOp, sendRuns, recvVars,
                   serverVars, net, count>>

\* handleLookupReceiver with an empty input: the early return.
LookupEmpty(d) ==
    /\ Shown(d, "send")
    /\ sendUI[d].state = "lookup"
    /\ lookupOp[d].pc = "idle"
    /\ sendUI[d].receiverEmail = ""
    /\ sendUI' = [sendUI EXCEPT ![d].error = "Please enter receiver email"]
    /\ UNCHANGED <<authVars, lookupOp, sendOp, sendRuns, recvVars,
                   serverVars, net, count>>

\* handleLookupReceiver: getReceiverPublicKey is sent.
LookupStart(d) ==
    /\ Shown(d, "send")
    /\ sendUI[d].state = "lookup"
    /\ lookupOp[d].pc = "idle"
    /\ sendUI[d].receiverEmail # ""
    /\ sendUI' = [sendUI EXCEPT ![d].error = ""]
    /\ lookupOp' = [lookupOp EXCEPT ![d] =
                       [pc |-> "wait", email |-> sendUI[d].receiverEmail]]
    /\ UNCHANGED <<authVars, sendOp, sendRuns, recvVars,
                   serverVars, net, count>>

\* The key pairs of the server's operator, and their bundle.
MalloryKeys == ExportedKeys("mallory", 1)
MalloryBundle == combinedPublicKey(MalloryKeys)

\* The bundle a login that generated the g-th key pairs of u uploads.
Bundle == [u \in Accounts, g \in Generations |-> combinedPublicKey(ExportedKeys(u, g))]

\* What the server may answer to a lookup of email: the bundle that user
\* registered, or a bundle of its own.
LookupAnswers(email) ==
    IF email \notin Accounts THEN {}
    ELSE { [userId |-> email, publicKey |-> b] :
             b \in ({serverKeys[email]} \ {Absent}) \cup {MalloryBundle} }

\* getReceiverPublicKey returns: setReceiverData(data); setState('select').
LookupReturns(d, data) ==
    /\ lookupOp[d].pc = "wait"
    /\ data \in LookupAnswers(lookupOp[d].email)
    /\ sendUI' = [sendUI EXCEPT ![d].receiverData = data,
                                ![d].lookedUp = lookupOp[d].email,
                                ![d].state = "select"]
    /\ lookupOp' = [lookupOp EXCEPT ![d] = [pc |-> "idle", email |-> ""]]
    /\ UNCHANGED <<authVars, sendOp, sendRuns, recvVars,
                   serverVars, net, count>>

\* getReceiverPublicKey returns whatever the server answered.
LookupReturnsAny(d, data) ==
    /\ lookupOp[d].pc = "wait"
    /\ sendUI' = [sendUI EXCEPT ![d].receiverData = data,
                                ![d].lookedUp = lookupOp[d].email,
                                ![d].state = "select"]
    /\ lookupOp' = [lookupOp EXCEPT ![d] = [pc |-> "idle", email |-> ""]]
    /\ UNCHANGED <<authVars, sendOp, sendRuns, recvVars,
                   serverVars, net, count>>

\* getReceiverPublicKey throws: setError(err.message).
LookupFails(d) ==
    /\ lookupOp[d].pc = "wait"
    /\ sendUI' = [sendUI EXCEPT ![d].error = "User not found"]
    /\ lookupOp' = [lookupOp EXCEPT ![d] = [pc |-> "idle", email |-> ""]]
    /\ UNCHANGED <<authVars, sendOp, sendRuns, recvVars,
                   serverVars, net, count>>

\* handleFileSelect.
FileSelect(d, name, content) ==
    /\ Shown(d, "send")
    /\ sendUI[d].state = "select"
    /\ sendUI[d].selectedFile # [name |-> name, content |-> content, picked |-> TRUE]
    /\ sendUI' = [sendUI EXCEPT ![d].selectedFile =
                     [name |-> name, content |-> content, picked |-> TRUE]]
    /\ UNCHANGED <<authVars, lookupOp, sendOp, sendRuns, recvVars,
                   serverVars, net, count>>

\* handleSend up to its first await: setState('sending'); getKeys().
SendStart(d) ==
    /\ Shown(d, "send")
    /\ sendUI[d].state = "select"
    /\ sendUI[d].selectedFile.picked
    /\ sendUI[d].receiverData # NoData
    /\ sendOp[d].pc = "idle"
    /\ count.sends < MaxSends
    /\ count' = [count EXCEPT !.sends = @ + 1]
    /\ sendUI' = [sendUI EXCEPT ![d].state = "sending", ![d].error = ""]
    /\ sendOp' = [sendOp EXCEPT ![d] =
                     [IdleSend EXCEPT !.pc = "getKeys", !.attached = TRUE,
                                      !.no = count.sends + 1,
                                      !.receiverData = sendUI[d].receiverData,
                                      !.email = sendUI[d].lookedUp,
                                      !.selectedFile = sendUI[d].selectedFile]]
    /\ UNCHANGED <<authVars, lookupOp, sendRuns, recvVars, serverVars, net>>

\* A faulty variant: the catch block sets the message and not the state.
SendCatchKeepsState(ui, message) == [ui EXCEPT !.error = message]

\* The state handleSend's catch block leaves the component in.
SendCatch(ui, message) == [ui EXCEPT !.error = message, !.state = "error"]

\* handleSend's catch block, for the invocation op that threw message.
SendThrows(d, op, message) ==
    /\ sendUI' = IF op.attached
                 THEN [sendUI EXCEPT ![d] = SendCatch(@, message)]
                 ELSE sendUI
    /\ sendOp' = [sendOp EXCEPT ![d] =
                     [op EXCEPT !.pc = "idle", !.outcome = "error",
                                !.error = message]]

\* getKeys returns: without keys handleSend throws; with keys it reads the
\* file, encrypts, wraps the key, signs and sends POST /files/send.
SendGetKeys(d) ==
    /\ sendOp[d].pc = "getKeys"
    /\ LET keys == getKeys(keyStore[d])
       IN  IF ~keys.ok THEN
               /\ SendThrows(d, sendOp[d], "Local keys not found")
               /\ UNCHANGED <<uploads, net>>
           ELSE \E nonce \in Nonces :
               LET e == RunSend(SendSteps,
                                SendEnv(keys.v, sendOp[d].receiverData,
                                        sendOp[d].selectedFile,
                                        DeviceKey(sendOp[d].no), nonce))
                   op == [sendOp[d] EXCEPT !.log = e.log, !.hash = e.hash,
                                           !.imported =
                                               [text |-> e.receiverEncryptionKey,
                                                key |-> e.receiverPublicKey]]
               IN  IF e.thrown THEN
                       /\ SendThrows(d, op, e.error)
                       /\ UNCHANGED <<uploads, net>>
                   ELSE
                       /\ sendOp' = [sendOp EXCEPT ![d] =
                                       [op EXCEPT !.pc = "upload",
                                                  !.upload = Len(uploads) + 1]]
                       /\ uploads' = Append(uploads,
                             [sender |-> d, to |-> sendOp[d].email,
                              content |-> sendOp[d].selectedFile.content,
                              aead |-> e.encryptedFileBuffer,
                              env |-> e.payload])
                       /\ net' = net \cup {Request("send", sendFileParts(e.payload))}
                       /\ UNCHANGED sendUI
    /\ UNCHANGED <<authVars, lookupOp, sendRuns, recvVars, serverKeys, count>>

\* sendFile returns: setState('success').
SendReturns(d) ==
    /\ sendOp[d].pc = "upload"
    /\ sendUI' = IF sendOp[d].attached
                 THEN [sendUI EXCEPT ![d].state = "success"]
                 ELSE sendUI
    /\ sendOp' = [sendOp EXCEPT ![d].pc = "idle", ![d].outcome = "success"]
    /\ UNCHANGED <<authVars, lookupOp, sendRuns, recvVars,
                   serverVars, net, count>>

\* sendFile throws.
SendFails(d) ==
    /\ sendOp[d].pc = "upload"
    /\ SendThrows(d, sendOp[d], "Failed to send file")
    /\ UNCHANGED <<authVars, lookupOp, sendRuns, recvVars,
                   serverVars, net, count>>

\* A faulty variant: Try Again goes back to the file selection, keeping the
\* receiver and the file.
SendResetToSelect(d) ==
    /\ Shown(d, "send")
    /\ sendUI[d].state \in {"select", "success", "error"}
    /\ sendUI' = [sendUI EXCEPT ![d].state = "select", ![d].error = ""]
    /\ UNCHANGED <<authVars, lookupOp, sendOp, sendRuns, recvVars,
                   serverVars, net, count>>

\* A faulty variant: handleReset clears the receiver and the file but leaves
\* the state as it is.
SendResetKeepsState(d) ==
    /\ Shown(d, "send")
    /\ sendUI[d].state \in {"select", "success", "error"}
    /\ sendUI' = [sendUI EXCEPT ![d] = [SendUIInit EXCEPT !.state = sendUI[d].state]]
    /\ UNCHANGED <<authVars, lookupOp, sendOp, sendRuns, recvVars,
                   serverVars, net, count>>

\* SendFile's handleReset: Cancel, Send Another File, Try Again.
SendReset(d) ==
    /\ Shown(d, "send")
    /\ sendUI[d].state \in {"select", "success", "error"}
    /\ sendUI' = [sendUI EXCEPT ![d] = SendUIInit]
    /\ UNCHANGED <<authVars, lookupOp, sendOp, sendRuns, recvVars,
                   serverVars, net, count>>

\* ------------------------------------------- handleSend, statement by statement

\* A faulty variant: generateAESKey returns the key it made first.
StepKeyCached(drawn) == DeviceKey(1)

\* The key generateAESKey returns after it has returned drawn keys.
StepKey(drawn) == DeviceKey(drawn + 1)

\* handleSend up to the return of getKeys, which found the keys:
\* setState('sending') and the locals of the invocation.
SendInvoke(d) ==
    /\ Shown(d, "send")
    /\ sendUI[d].state = "select"
    /\ sendUI[d].selectedFile.picked
    /\ sendUI[d].receiverData # NoData
    /\ Len(sendRuns[d].runs) < MaxRuns
    /\ getKeys(keyStore[d]).ok
    /\ sendUI' = [sendUI EXCEPT ![d].state = "sending", ![d].error = ""]
    /\ sendRuns' = [sendRuns EXCEPT ![d].runs = Append(@,
          [attached |-> TRUE, pc |-> "steps", email |-> sendUI[d].lookedUp,
           e |-> SendEnv(getKeys(keyStore[d]).v, sendUI[d].receiverData,
                         sendUI[d].selectedFile, 0, Absent),
           rest |-> SendSteps])]
    /\ UNCHANGED <<authVars, lookupOp, sendOp, recvVars, serverVars, net, count>>

\* Invocation i runs its next statement group; between two groups (every one
\* ends at an await) the other invocations may run theirs.
SendRunStep(d, i) ==
    /\ i \in DOMAIN sendRuns[d].runs
    /\ sendRuns[d].runs[i].pc = "steps"
    /\ \E nonce \in Nonces :
          LET run == sendRuns[d].runs[i]
              step == Head(run.rest)
              logged == [run.e EXCEPT !.log = Append(@, step)]
              given == CASE step = "generateAESKey" ->
                              [logged EXCEPT !.newKey = StepKey(sendRuns[d].drawn)]
                         [] step = "generateNonce" ->
                              [logged EXCEPT !.newNonce = nonce]
                         [] OTHER -> logged
              e == SendStep(step, given)
              last == Len(run.rest) = 1
          IN  /\ sendRuns' = [sendRuns EXCEPT
                    ![d].runs[i] =
                        [run EXCEPT !.e = e, !.rest = Tail(run.rest),
                                    !.pc = IF e.thrown THEN "done"
                                           ELSE IF last THEN "upload" ELSE "steps"],
                    ![d].drawn = IF step = "generateAESKey" THEN @ + 1 ELSE @,
                    ![d].calls = IF step = "encryptFile"
                                 THEN Append(@, [run |-> i, key |-> given.aesKey,
                                                 nonce |-> given.nonce])
                                 ELSE @]
              /\ sendUI' = IF e.thrown /\ run.attached
                           THEN [sendUI EXCEPT ![d] = SendCatch(@, e.error)]
                           ELSE sendUI
              /\ IF ~e.thrown /\ step = "sendFile"
                 THEN /\ uploads' = Append(uploads,
                            [sender |-> d, to |-> run.email,
                             content |-> run.e.selectedFile.content,
                             aead |-> e.encryptedFileBuffer,
                             env |-> e.payload])
                      /\ net' = net \cup {Request("send", sendFileParts(e.payload))}
                 ELSE UNCHANGED <<uploads, net>>
    /\ UNCHANGED <<authVars, lookupOp, sendOp, recvVars, serverKeys, count>>

\* sendFile of invocation i returns: setState('success').
SendRunReturns(d, i) ==
    /\ i \in DOMAIN sendRuns[d].runs
    /\ sendRuns[d].runs[i].pc = "upload"
    /\ sendRuns' = [sendRuns EXCEPT ![d].runs[i].pc = "done"]
    /\ sendUI' = IF sendRuns[d].runs[i].attached
                 THEN [sendUI EXCEPT ![d].state = "success"]
                 ELSE sendUI
    /\ UNCHANGED <<authVars, lookupOp, sendOp, recvVars, serverVars, net, count>>

\* sendFile of invocation i throws: the catch block.
SendRunFails(d, i) ==
    /\ i \in DOMAIN sendRuns[d].runs
    /\ sendRuns[d].runs[i].pc = "upload"
    /\ sendRuns' = [sendRuns EXCEPT ![d].runs[i].pc = "done",
                                    ![d].runs[i].e.error = "Failed to send file"]
    /\ sendUI' = IF sendRuns[d].runs[i].attached
                 THEN [sendUI EXCEPT ![d] = SendCatch(@, "Failed to send file")]
                 ELSE sendUI
    /\ UNCHANGED <<authVars, lookupOp, sendOp, recvVars, serverVars, net, count>>

\* ------------------------------------------------------------- ReceiveFiles

\* The inbox entries the server may list: one per stored envelope, under its
\* sender, and one, under the second user's name, for an envelope of its own
\* making.
InboxEntries ==
    { [fileId |-> i, fileName |-> uploads[i].env.fileName,
       senderId |-> uploads[i].sender] : i \in 1..Len(uploads) }
    \cup { [fileId |-> 0, fileName |-> <<102>>, senderId |-> s] : s \in Peers }

\* getInbox returns: setFiles(inboxFiles).
InboxReturns(d, inboxFiles) ==
    /\ inboxOp[d] = "wait"
    /\ inboxFiles \subseteq InboxEntries
    /\ Cardinality(inboxFiles) <= 1
    /\ recvUI' = [recvUI EXCEPT ![d].files = inboxFiles, ![d].loading = FALSE]
    /\ inboxOp' = [inboxOp EXCEPT ![d] = "idle"]
    /\ UNCHANGED <<authVars, sendVars, recvOp, saved, serverVars, net, count>>

\* getInbox throws.
InboxFails(d) ==
    /\ inboxOp[d] = "wait"
    /\ recvUI' = [recvUI EXCEPT ![d].error = "Failed to fetch inbox",
                                ![d].loading = FALSE]
    /\ inboxOp' = [inboxOp EXCEPT ![d] = "idle"]
    /\ UNCHANGED <<authVars, sendVars, recvOp, saved, serverVars, net, count>>

\* Refresh or Retry: fetchInbox again.
Refresh(d) ==
    /\ Shown(d, "receive")
    /\ recvUI[d].state = "list"
    /\ ~recvUI[d].loading
    /\ recvUI' = [recvUI EXCEPT ![d].loading = TRUE, ![d].error = ""]
    /\ inboxOp' = [inboxOp EXCEPT ![d] = "wait"]
    /\ UNCHANGED <<authVars, sendVars, recvOp, saved, serverVars, net, count>>

\* handleDownload up to its first await: setSelectedFile(file);
\* setState('downloading'); getKeys().
DownloadStart(d, file) ==
    /\ Shown(d, "receive")
    /\ recvUI[d].state = "list"
    /\ ~recvUI[d].loading
    /\ recvUI[d].error = ""
    /\ file \in recvUI[d].files
    /\ recvOp[d].pc = "idle"
    /\ count.downloads < MaxDownloads
    /\ count' = [count EXCEPT !.downloads = @ + 1]
    /\ recvUI' = [recvUI EXCEPT ![d].selectedFile = file,
                                ![d].state = "downloading", ![d].error = ""]
    /\ recvOp' = [recvOp EXCEPT ![d] =
                     [IdleRecv EXCEPT !.pc = "getKeys", !.attached = TRUE,
                                      !.file = file]]
    /\ UNCHANGED <<authVars, sendVars, inboxOp, saved, serverVars, net>>

\* A faulty variant: the catch block sets the message and not the state.
RecvCatchKeepsState(ui, message) == [ui EXCEPT !.error = message]

\* A faulty variant: the catch block shows its fallback text for every error.
RecvCatchFallbackText(ui, message) ==
    [ui EXCEPT !.error = "Failed to download file", !.state = "error"]

\* The state handleDownload's catch block leaves the component in.
RecvCatch(ui, message) == [ui EXCEPT !.error = message, !.state = "error"]

\* handleDownload's catch block, for the invocation op that threw message.
RecvThrows(d, op, message) ==
    /\ recvUI' = IF op.attached
                 THEN [recvUI EXCEPT ![d] = RecvCatch(@, message)]
                 ELSE recvUI
    /\ recvOp' = [recvOp EXCEPT ![d] =
                     [op EXCEPT !.pc = "idle", !.outcome = "error",
                                !.error = message]]

\* getKeys returns: without keys handleDownload throws; with keys it sends
\* GET /files/download/:fileId.
RecvGetKeys(d) ==
    /\ recvOp[d].pc = "getKeys"
    /\ LET keys == getKeys(keyStore[d])
       IN  IF ~keys.ok THEN
               RecvThrows(d, recvOp[d], "Local keys not found")
           ELSE
               /\ recvOp' = [recvOp EXCEPT ![d].pc = "download", ![d].keys = keys.v]
               /\ UNCHANGED recvUI
    /\ UNCHANGED <<authVars, sendVars, inboxOp, saved, serverVars, net, count>>

\* An envelope in the shape downloadFile returns it.
AsDownloaded(p) ==
    [encryptedFile |-> p.file, encryptedAESKey |-> p.encryptedAESKey,
     nonce |-> p.nonce, authTag |-> p.authTag, signature |-> p.signature,
     senderPublicKey |-> p.senderPublicKey, fileName |-> p.fileName]

\* The single-bit changes of a buffer the server tries: the lowest bit of the
\* first byte and the highest bit of the last.
Flips(bytes) ==
    { FlipAt(bytes, pos, 0) : pos \in {1} \cap DOMAIN bytes }
    \cup { FlipAt(bytes, pos, 7) : pos \in {Len(bytes)} \cap DOMAIN bytes }

\* env with one bit of its ciphertext, nonce or tag inverted.
Tampered(env) ==
    { [env EXCEPT !.encryptedFile = x] : x \in Flips(env.encryptedFile) }
    \cup { [env EXCEPT !.nonce = btoa(x)] : x \in Flips(atob(env.nonce).v) }
    \cup { [env EXCEPT !.authTag = btoa(x)] : x \in Flips(atob(env.authTag).v) }

\* env signed anew by the server's operator and sent under their bundle.
Resigned(env) ==
    LET data == concatenateBuffers(<<env.encryptedFile, atob(env.nonce).v,
                                     atob(env.authTag).v>>)
        key == importSigningPrivateKey(MalloryKeys.signingPrivateKey).v
    IN  [env EXCEPT !.signature = btoa(signData(hashData(data), key)),
                    !.senderPublicKey = MalloryBundle]

\* The envelope the server's operator makes, as a sender would, for the user
\* who registered the g-th bundle of device d.
ForgedEnvelope ==
    [d \in Devices, g \in Generations |->
        AsDownloaded(
          RunSend(SendSteps,
                  SendEnv([MalloryKeys EXCEPT !.signingPublicKey = MalloryBundle],
                          [userId |-> d, publicKey |-> Bundle[d, g]],
                          [name |-> <<102>>, content |-> <<66>>, picked |-> TRUE],
                          ForgerKey, CHOOSE nonce \in Nonces : TRUE)).payload)]

Forged(d) ==
    { ForgedEnvelope[d, g] : g \in { h \in Generations : Bundle[d, h] = serverKeys[d] } }

\* The envelopes the server may answer a download of fileId with.
Deliverable(d, fileId) ==
    IF fileId \in 1..Len(uploads)
    THEN LET stored == AsDownloaded(uploads[fileId].env)
         IN  {stored} \cup Tampered(stored) \cup {Resigned(stored)}
    ELSE Forged(d)

\* downloadedFile is an upload with its signature and sender key unchanged
\* and with another ciphertext, nonce or tag.
IsTampered(downloadedFile) ==
    \E i \in 1..Len(uploads) :
        LET sent == AsDownloaded(uploads[i].env)
        IN  /\ downloadedFile.signature = sent.signature
            /\ downloadedFile.senderPublicKey = sent.senderPublicKey
            /\ << downloadedFile.encryptedFile, downloadedFile.nonce,
                  downloadedFile.authTag >>
               # << sent.encryptedFile, sent.nonce, sent.authTag >>

\* The users whose devices sent, and so signed, the ciphertext, nonce and tag
\* of downloadedFile.
Signers(downloadedFile) ==
    { uploads[i].sender : i \in { j \in 1..Len(uploads) :
        LET sent == AsDownloaded(uploads[j].env)
        IN  << downloadedFile.encryptedFile, downloadedFile.nonce,
               downloadedFile.authTag >>
            = << sent.encryptedFile, sent.nonce, sent.authTag >> } }

\* The digest of the received ciphertext, nonce and tag, in this order.
DigestOfReceived(downloadedFile) ==
    LET n == atob(downloadedFile.nonce)
        t == atob(downloadedFile.authTag)
    IN  IF n.ok /\ t.ok
        THEN Ok(hashData(downloadedFile.encryptedFile \o n.v \o t.v))
        ELSE Throw

\* downloadedFile has the ciphertext, nonce, authTag and signature of the
\* envelope stored as fileId.
SignedPartAsStored(fileId, downloadedFile) ==
    /\ fileId \in 1..Len(uploads)
    /\ LET sent == AsDownloaded(uploads[fileId].env)
       IN  /\ downloadedFile.encryptedFile = sent.encryptedFile
           /\ downloadedFile.nonce = sent.nonce
           /\ downloadedFile.authTag = sent.authTag
           /\ downloadedFile.signature = sent.signature

\* The upload the downloaded envelope is an unmodified copy of, or 0.
OriginOf(downloadedFile) ==
    IF \E i \in 1..Len(uploads) : AsDownloaded(uploads[i].env) = downloadedFile
    THEN CHOOSE i \in 1..Len(uploads) : AsDownloaded(uploads[i].env) = downloadedFile
    ELSE 0

\* downloadFile returns or throws; on return handleDownload verifies,
\* decrypts and saves the file.
DownloadReturns(d, response) ==
    /\ recvOp[d].pc = "download"
    /\ LET got == downloadFile(response)
           e == RunRecv(RecvSteps, RecvEnv(recvOp[d].keys, recvOp[d].file, got.v))
           op == [recvOp[d] EXCEPT !.origin = OriginOf(got.v),
                                   !.tampered = IsTampered(got.v),
                                   !.signers = Signers(got.v),
                                   !.log = e.log,
                                   !.senderPublicKey = got.v.senderPublicKey,
                                   !.signature = got.v.signature,
                                   !.received =
                                       [signedPartAsStored |->
                                            SignedPartAsStored(recvOp[d].file.fileId, got.v),
                                        encryptedAESKey |-> got.v.encryptedAESKey,
                                        fileName |-> got.v.fileName],
                                   !.ciphertextWithTag = e.ciphertextWithTag,
                                   !.imported = [text |-> e.senderSigningKey,
                                                 key |-> e.signingPublicKey],
                                   !.digestOfReceived =
                                       (Ok(e.hash) = DigestOfReceived(got.v)),
                                   !.isValid = e.isValid,
                                   !.verifiedWith = e.signingPublicKey.mat]
       IN  IF ~got.ok THEN
               /\ RecvThrows(d, recvOp[d], "Failed to download file")
               /\ UNCHANGED saved
           ELSE IF e.thrown THEN
               /\ RecvThrows(d, op, e.error)
               /\ UNCHANGED saved
           ELSE
               /\ saved' = [saved EXCEPT ![d] = @ \cup {e.savedFile}]
               /\ recvUI' = IF op.attached
                            THEN [recvUI EXCEPT ![d].state = "success"]
                            ELSE recvUI
               /\ recvOp' = [recvOp EXCEPT ![d] =
                               [op EXCEPT !.pc = "idle", !.outcome = "success",
                                          !.savedFile = e.savedFile]]
    /\ UNCHANGED <<authVars, sendVars, inboxOp, serverVars, net, count>>

\* ReceiveFiles' handleReset: Back to Inbox.
RecvReset(d) ==
    /\ Shown(d, "receive")
    /\ recvUI[d].state \in {"success", "error"}
    /\ recvUI' = [recvUI EXCEPT ![d].state = "list", ![d].selectedFile = NoInboxFile,
                                ![d].error = ""]
    /\ UNCHANGED <<authVars, sendVars, inboxOp, recvOp, saved, serverVars, net, count>>

\* ------------------------------------------------------------------- server

\* What the server's operator gets from stored envelope i with their own
\* private key: the unwrapped content key and the decrypted file.
ServerOpens(i) ==
    LET env == uploads[i].env
        key == importPrivateKey(MalloryKeys.encryptionPrivateKey).v
        aesKey == decryptAESKey(atob(env.encryptedAESKey).v, key)
    IN  IF ~aesKey.ok THEN Throw
        ELSE decryptFile(env.file \o atob(env.authTag).v, aesKey.v,
                         atob(env.nonce).v)

\* The file contents the server's operator can recover.
ServerPlain ==
    { [upload |-> i, content |-> ServerOpens(i).v] :
        i \in { j \in 1..Len(uploads) : ServerOpens(j).ok } }

\* -------------------------------------------------------------- second user

\* Envelope n of the second user p for the user who registered the g-th
\* bundle of device d: what handleSend on p's device uploads.
PeerEnvelope ==
    [p \in Peers, d \in Devices, g \in Generations, n \in 1..MaxPeerSends |->
        RunSend(SendSteps,
                SendEnv(ExportedKeys(p, 1), [userId |-> d, publicKey |-> Bundle[d, g]],
                        PeerFile, PeerKey(n), CHOOSE nonce \in Nonces : TRUE)).payload]

\* The output of encryptFile that envelope was cut from.
PeerAead ==
    [p \in Peers, d \in Devices, g \in Generations, n \in 1..MaxPeerSends |->
        RunSend(SendSteps,
                SendEnv(ExportedKeys(p, 1), [userId |-> d, publicKey |-> Bundle[d, g]],
                        PeerFile, PeerKey(n),
                        CHOOSE nonce \in Nonces : TRUE)).encryptedFileBuffer]

\* The second user's device runs handleSend to the device's user, whose
\* registered bundle the server gave to its lookup.
PeerSends(p, d) ==
    /\ count.peerSends < MaxPeerSends
    /\ \E g \in Generations :
          /\ Bundle[d, g] = serverKeys[d]
          /\ uploads' = Append(uploads,
                [sender |-> p, to |-> d, content |-> PeerFile.content,
                 aead |-> PeerAead[p, d, g, count.peerSends + 1],
                 env |-> PeerEnvelope[p, d, g, count.peerSends + 1]])
    /\ count' = [count EXCEPT !.peerSends = @ + 1]
    /\ UNCHANGED <<authVars, sendVars, recvVars, serverKeys, net>>

\* What handleDownload on the second user's device ends with for upload i,
\* delivered by the server as it was uploaded.
PeerDownload(p, i, shape) ==
    LET got == downloadFile(DownloadResponse(AsDownloaded(uploads[i].env), shape))
        e == RunRecv(RecvSteps,
                     RecvEnv(ExportedKeys(p, 1),
                             [fileId |-> i, fileName |-> uploads[i].env.fileName,
                              senderId |-> uploads[i].sender],
                             got.v))
    IN  [outcome |-> IF got.ok /\ ~e.thrown THEN "success" ELSE "error",
         log |-> e.log, isValid |-> e.isValid, savedFile |-> e.savedFile]

\* ------------------------------------------------- malformed server answers

\* Strings that are no key: the JSON text of a number, and a text that is
\* neither JSON nor base64.
JsonNumber == <<53>>
NotBase64 == <<0, 200>>

\* What a server that may answer anything answers to a lookup of email: the
\* registered bundle, the registered encryption key alone (the legacy form),
\* or a string that is no key.
AnyLookupAnswers(email) ==
    IF email \notin Accounts \/ serverKeys[email] = Absent THEN {}
    ELSE { [userId |-> email, publicKey |-> k] :
             k \in { serverKeys[email],
                     JSONfield(serverKeys[email], "encryption").v,
                     JsonNumber, NotBase64 } }

\* The signature bytes of env without their last byte.
TruncatedSignature(env) ==
    LET sig == atob(env.signature).v
    IN  btoa(SubSeq(sig, 1, Len(sig) - 1))

\* Stored envelope i with its sender key or its signature replaced (the
\* sender's registered bundle, a string that is no key, the signing key of
\* another pair, a text that is not base64, a signature cut short), or with a
\* bit of its nonce inverted.
Malformed(i) ==
    LET stored == AsDownloaded(uploads[i].env)
    IN  { [stored EXCEPT !.senderPublicKey = k] :
            k \in { serverKeys[uploads[i].sender], JsonNumber, NotBase64,
                    MalloryKeys.signingPublicKey } }
        \cup { [stored EXCEPT !.signature = x] :
                 x \in { NotBase64, TruncatedSignature(stored) } }
        \cup { [stored EXCEPT !.nonce = btoa(FlipAt(atob(stored.nonce).v, 1, 0))] }

\* The envelope of the server's operator with a bit of its tag inverted, or
\* with the content key wrapped under the operator's own key, and then signed.
ForgedBroken ==
    [d \in Devices, g \in Generations |->
        LET env == ForgedEnvelope[d, g]
            badTag == [env EXCEPT !.authTag = btoa(FlipAt(atob(env.authTag).v, 1, 0))]
            key == importPublicKey(MalloryKeys.encryptionPublicKey).v
            badWrap == [env EXCEPT !.encryptedAESKey =
                           btoa(encryptAESKey(ForgerKey, key))]
        IN  { Resigned(badTag), Resigned(badWrap) }]

\* The envelopes a server that may answer anything answers a download with.
AnyDeliverable(d, fileId) ==
    IF fileId \in 1..Len(uploads)
    THEN LET stored == AsDownloaded(uploads[fileId].env)
         IN  {stored} \cup Malformed(fileId)
    ELSE Forged(d)
         \cup UNION { ForgedBroken[d, g] :
                        g \in { h \in Generations : Bundle[d, h] = serverKeys[d] } }

\* ------------------------------------------------------------ specification

Shapes == {"json", "blob"}

\* AuthProvider, Login and logout.
AuthNext ==
    \/ \E d \in Devices : MountCheck(d)
    \/ \E d \in Devices : LoginStart(d)
    \/ \E d \in Devices : LoginAuthFails(d)
    \/ \E d \in Devices, isNewUser \in BOOLEAN : LoginAuthReturns(d, isNewUser)
    \/ \E d \in Devices : LoginStoreKeys(d)
    \/ \E d \in Devices : PublicKeyRegistered(d)
    \/ \E d \in Devices : LoginUploadReturns(d)
    \/ \E d \in Devices : LoginUploadFails(d)
    \/ \E d \in Devices : LoginHasKeys(d)
    \/ \E d \in Devices : Logout(d)
    \/ \E d \in Devices : ClearKeysRuns(d)

\* Dashboard, SendFile and ReceiveFiles, and the second user's sends.
TransferNext ==
    \/ \E d \in Devices, v \in {"send", "receive"} : OpenView(d, v)
    \/ \E d \in Devices : Back(d)
    \/ \E d \in Devices, email \in Emails : TypeEmail(d, email)
    \/ \E d \in Devices : LookupEmpty(d)
    \/ \E d \in Devices : LookupStart(d)
    \/ \E d \in Devices : \E data \in LookupAnswers(lookupOp[d].email) :
          LookupReturns(d, data)
    \/ \E d \in Devices : LookupFails(d)
    \/ \E d \in Devices, name \in FileNames, content \in Files :
          FileSelect(d, name, content)
    \/ \E d \in Devices : SendStart(d)
    \/ \E d \in Devices : SendGetKeys(d)
    \/ \E d \in Devices : SendReturns(d)
    \/ \E d \in Devices : SendFails(d)
    \/ \E d \in Devices : SendReset(d)
    \/ \E d \in Devices : \E inboxFiles \in SUBSET InboxEntries :
          InboxReturns(d, inboxFiles)
    \/ \E d \in Devices : InboxFails(d)
    \/ \E d \in Devices : Refresh(d)
    \/ \E d \in Devices : \E file \in recvUI[d].files : DownloadStart(d, file)
    \/ \E d \in Devices : RecvGetKeys(d)
    \/ \E d \in Devices : \E env \in Deliverable(d, recvOp[d].file.fileId) :
          \E shape \in Shapes : DownloadReturns(d, DownloadResponse(env, shape))
    \/ \E d \in Devices : DownloadReturns(d, FailedResponse)
    \/ \E d \in Devices : RecvReset(d)
    \/ \E p \in Peers, d \in Devices : PeerSends(p, d)

Next == AuthNext \/ TransferNext

\* The whole client from a fresh installation.
Spec == Init /\ [][Next]_vars

\* The state a new user's first login leaves once it and the mount effect
\* have settled: logged in, the first key pairs stored and their bundle
\* registered.
Provisioned ==
    /\ jwt = [d \in Devices |-> TRUE]
    /\ isLoggedIn = [d \in Devices |-> TRUE]
    /\ hasKeyPair = [d \in Devices |-> TRUE]
    /\ mountCheck = [d \in Devices |-> FALSE]
    /\ keyStore = [d \in Devices |-> storeKeys(ExportedKeys(d, 1))]
    /\ clearPending = [d \in Devices |-> FALSE]
    /\ idb = [d \in Devices |-> NoTransactions]
    /\ keyGen = [d \in Devices |-> 1]
    /\ loginOp = [d \in Devices |-> [pc |-> "idle", gen |-> 1]]
    /\ currentView = [d \in Devices |-> "dashboard"]
    /\ sendUI = [d \in Devices |-> SendUIInit]
    /\ lookupOp = [d \in Devices |-> [pc |-> "idle", email |-> ""]]
    /\ sendOp = [d \in Devices |-> IdleSend]
    /\ sendRuns = [d \in Devices |-> NoRuns]
    /\ recvUI = [d \in Devices |-> RecvUIInit]
    /\ inboxOp = [d \in Devices |-> "idle"]
    /\ recvOp = [d \in Devices |-> IdleRecv]
    /\ saved = [d \in Devices |-> {}]
    /\ serverKeys = [u \in Accounts |-> combinedPublicKey(ExportedKeys(u, 1))]
    /\ uploads = << >>
    /\ net = { Request("auth", <<Credential>>) }
             \cup { Request("publicKey", <<combinedPublicKey(ExportedKeys(d, 1))>>) :
                      d \in Devices }
    /\ count = [sends |-> 0, peerSends |-> 0, downloads |-> 0, logouts |-> 0]

\* The transfers of a provisioned, logged-in user.
SpecTransfer == Provisioned /\ [][TransferNext]_vars

\* Dashboard, SendFile and ReceiveFiles against a server that may answer a
\* lookup or a download with strings that are no keys and no signatures.
MalformedNext ==
    \/ \E d \in Devices, v \in {"send", "receive"} : OpenView(d, v)
    \/ \E d \in Devices : Back(d)
    \/ \E d \in Devices, email \in Emails : TypeEmail(d, email)
    \/ \E d \in Devices : LookupEmpty(d)
    \/ \E d \in Devices : LookupStart(d)
    \/ \E d \in Devices : \E data \in AnyLookupAnswers(lookupOp[d].email) :
          LookupReturnsAny(d, data)
    \/ \E d \in Devices : LookupFails(d)
    \/ \E d \in Devices, name \in FileNames :
          FileSelect(d, name, LongestFile)
    \/ \E d \in Devices : SendStart(d)
    \/ \E d \in Devices : SendGetKeys(d)
    \/ \E d \in Devices : SendReturns(d)
    \/ \E d \in Devices : SendFails(d)
    \/ \E d \in Devices : SendReset(d)
    \/ \E d \in Devices : \E inboxFiles \in SUBSET InboxEntries :
          InboxReturns(d, inboxFiles)
    \/ \E d \in Devices : InboxFails(d)
    \/ \E d \in Devices : Refresh(d)
    \/ \E d \in Devices : \E file \in recvUI[d].files : DownloadStart(d, file)
    \/ \E d \in Devices : RecvGetKeys(d)
    \/ \E d \in Devices : \E env \in AnyDeliverable(d, recvOp[d].file.fileId) :
          \E shape \in Shapes : DownloadReturns(d, DownloadResponse(env, shape))
    \/ \E d \in Devices : DownloadReturns(d, FailedResponse)
    \/ \E d \in Devices : RecvReset(d)
    \/ \E p \in Peers, d \in Devices : PeerSends(p, d)

\* The transfers of a provisioned, logged-in user against such a server.
SpecMalformed == Provisioned /\ [][MalformedNext]_vars

\* SendFile with handleSend followed statement by statement, so that a send
\* started on a newly mounted component runs while an earlier one, whose
\* component was left with Back, is still in flight.
StepNext ==
    \/ \E d \in Devices : OpenView(d, "send")
    \/ \E d \in Devices : Back(d)
    \/ \E d \in Devices, email \in Emails : TypeEmail(d, email)
    \/ \E d \in Devices : LookupStart(d)
    \/ \E d \in Devices : \E data \in LookupAnswers(lookupOp[d].email) :
          LookupReturns(d, data)
    \/ \E d \in Devices, name \in FileNames : FileSelect(d, name, LongestFile)
    \/ \E d \in Devices : SendInvoke(d)
    \/ \E d \in Devices : \E i \in DOMAIN sendRuns[d].runs : SendRunStep(d, i)
    \/ \E d \in Devices : \E i \in DOMAIN sendRuns[d].runs : SendRunReturns(d, i)
    \/ \E d \in Devices : \E i \in DOMAIN sendRuns[d].runs : SendRunFails(d, i)
    \/ \E d \in Devices : SendReset(d)

\* The sends of a provisioned, logged-in user, statement by statement.
SpecSteps == Provisioned /\ [][StepNext]_vars

\* The envelopes an honest server answers a download with.
Stored(fileId) ==
    IF fileId \in 1..Len(uploads) THEN {AsDownloaded(uploads[fileId].env)} ELSE {}

\* Login, logout and the transfers, from a fresh installation, against a
\* server that answers lookups and downloads with what it stored.
SessionNext ==
    \/ \E d \in Devices : MountCheck(d)
    \/ \E d \in Devices : LoginStart(d)
    \/ \E d \in Devices : LoginAuthFails(d)
    \/ \E d \in Devices, isNewUser \in BOOLEAN : LoginAuthReturns(d, isNewUser)
    \/ \E d \in Devices : LoginStoreKeys(d)
    \/ \E d \in Devices : PublicKeyRegistered(d)
    \/ \E d \in Devices : LoginUploadReturns(d)
    \/ \E d \in Devices : LoginUploadFails(d)
    \/ \E d \in Devices : LoginHasKeys(d)
    \/ \E d \in Devices : Logout(d)
    \/ \E d \in Devices : ClearKeysRuns(d)
    \/ \E d \in Devices, v \in {"send", "receive"} : OpenView(d, v)
    \/ \E d \in Devices : Back(d)
    \/ \E d \in Devices, email \in Emails : TypeEmail(d, email)
    \/ \E d \in Devices : LookupStart(d)
    \/ \E d \in Devices :
          LookupReturns(d, [userId |-> lookupOp[d].email,
                            publicKey |-> serverKeys[lookupOp[d].email]])
    \/ \E d \in Devices, name \in FileNames : FileSelect(d, name, LongestFile)
    \/ \E d \in Devices : SendStart(d)
    \/ \E d \in Devices : SendGetKeys(d)
    \/ \E d \in Devices : SendReturns(d)
    \/ \E d \in Devices : SendReset(d)
    \/ \E d \in Devices : \E inboxFiles \in SUBSET InboxEntries :
          InboxReturns(d, inboxFiles)
    \/ \E d \in Devices : \E file \in recvUI[d].files : DownloadStart(d, file)
    \/ \E d \in Devices : RecvGetKeys(d)
    \/ \E d \in Devices : \E env \in Stored(recvOp[d].file.fileId) :
          DownloadReturns(d, DownloadResponse(env, "json"))
    \/ \E d \in Devices : RecvReset(d)
    \/ \E p \in Peers, d \in Devices : PeerSends(p, d)

\* The sessions of a device from its first start.
SpecSession == Init /\ [][SessionNext]_vars

\* env as a server delivers it that has no file name for it.
Nameless(env) == [env EXCEPT !.fileName = Absent]

\* The envelopes a server answers a download with that delivers what it
\* stored, with or without the file name.
StoredOrNameless(fileId) ==
    Stored(fileId) \cup { Nameless(env) : env \in Stored(fileId) }

\* ReceiveFiles against a server that delivers what it stored in either
\* response shape, with or without the file name.
DownloadNext ==
    \/ \E d \in Devices : OpenView(d, "receive")
    \/ \E d \in Devices : Back(d)
    \/ \E d \in Devices : \E inboxFiles \in SUBSET InboxEntries :
          InboxReturns(d, inboxFiles)
    \/ \E d \in Devices : InboxFails(d)
    \/ \E d \in Devices : Refresh(d)
    \/ \E d \in Devices : \E file \in recvUI[d].files : DownloadStart(d, file)
    \/ \E d \in Devices : RecvGetKeys(d)
    \/ \E d \in Devices : \E env \in StoredOrNameless(recvOp[d].file.fileId) :
          \E shape \in Shapes : DownloadReturns(d, DownloadResponse(env, shape))
    \/ \E d \in Devices : DownloadReturns(d, FailedResponse)
    \/ \E d \in Devices : RecvReset(d)
    \/ \E p \in Peers, d \in Devices : PeerSends(p, d)

\* The downloads of a provisioned, logged-in user in both response shapes.
SpecDownload == Provisioned /\ [][DownloadNext]_vars

\* storeKeys, getKeys and clearKeys called in any order and at any time, their
\* transactions followed request by request.
KeyStoreNext ==
    \/ \E d \in Devices, g \in Generations :
          TransactionBegins(d, "storeKeys", ExportedKeys(d, g))
    \/ \E d \in Devices, kind \in {"getKeys", "clearKeys"} :
          TransactionBegins(d, kind, NoKeys)
    \/ \E d \in Devices : \E i \in DOMAIN idb[d].txs : RequestRuns(d, i)
    \/ \E d \in Devices : \E i \in DOMAIN idb[d].txs : TransactionCompletes(d, i)

\* The key store of a device from its first start.
SpecKeyStore == Init /\ [][KeyStoreNext]_vars

\* The file names a server may put in place of the one it stored.
OtherFileNames == {<<120>>}

\* env with another file name.
Renamed(env) == { [env EXCEPT !.fileName = name] : name \in OtherFileNames \ {env.fileName} }

\* env for device d with its wrapped content key altered: a bit of it
\* inverted, or replaced by a key of the server's operator wrapped under the
\* encryption key d registered.
Rewrapped(env, d) ==
    { [env EXCEPT !.encryptedAESKey = btoa(x)] :
        x \in Flips(atob(env.encryptedAESKey).v) }
    \cup { [env EXCEPT !.encryptedAESKey =
              arrayBufferToBase64(
                  encryptAESKey(ForgerKey,
                      importPublicKey(ReceiverEncryptionKey(serverKeys[d])).v))] }

\* The envelopes a download of fileId by d is answered with when the wrapped
\* key or the file name of the stored one may be changed on the way.
InTransit(d, fileId) ==
    UNION { {env} \cup Renamed(env) \cup Rewrapped(env, d) : env \in Stored(fileId) }

\* ReceiveFiles against a server that may change the wrapped key or the file
\* name of what it stored.
TransitNext ==
    \/ \E d \in Devices : OpenView(d, "receive")
    \/ \E d \in Devices : Back(d)
    \/ \E d \in Devices : \E inboxFiles \in SUBSET InboxEntries :
          InboxReturns(d, inboxFiles)
    \/ \E d \in Devices : InboxFails(d)
    \/ \E d \in Devices : Refresh(d)
    \/ \E d \in Devices : \E file \in recvUI[d].files : DownloadStart(d, file)
    \/ \E d \in Devices : RecvGetKeys(d)
    \/ \E d \in Devices : \E env \in InTransit(d, recvOp[d].file.fileId) :
          \E shape \in Shapes : DownloadReturns(d, DownloadResponse(env, shape))
    \/ \E d \in Devices : DownloadReturns(d, FailedResponse)
    \/ \E d \in Devices : RecvReset(d)
    \/ \E p \in Peers, d \in Devices : PeerSends(p, d)

SpecTransit == Provisioned /\ [][TransitNext]_vars

\* The addresses typed into the receiver email input when the user corrects
\* what was typed: those of every account.
Addresses == Accounts

\* The SendFile component of a provisioned user who edits the email input,
\* looks receivers up and sends.
LookupNext ==
    \/ \E d \in Devices : OpenView(d, "send")
    \/ \E d \in Devices : Back(d)
    \/ \E d \in Devices, email \in Addresses : TypeEmail(d, email)
    \/ \E d \in Devices : LookupEmpty(d)
    \/ \E d \in Devices : LookupStart(d)
    \/ \E d \in Devices : \E data \in LookupAnswers(lookupOp[d].email) :
          LookupReturns(d, data)
    \/ \E d \in Devices : LookupFails(d)
    \/ \E d \in Devices, name \in FileNames : FileSelect(d, name, LongestFile)
    \/ \E d \in Devices : SendStart(d)
    \/ \E d \in Devices : SendGetKeys(d)
    \/ \E d \in Devices : SendReturns(d)
    \/ \E d \in Devices : SendFails(d)
    \/ \E d \in Devices : SendReset(d)

SpecLookup == Provisioned /\ [][LookupNext]_vars

\* ---------------------------------------------------------------- claims

\* The place of the first call of step in a call log, or 0.
Pos(log, step) ==
    IF \E i \in 1..Len(log) : log[i] = step
    THEN CHOOSE i \in 1..Len(log) : log[i] = step /\ \A j \in 1..(i - 1) : log[j] # step
    ELSE 0

\* In a call log, a call of step b comes only after a call of step a.
Precedes(log, a, b) ==
    Pos(log, b) # 0 => (Pos(log, a) # 0 /\ Pos(log, a) < Pos(log, b))

\* t occurs in s as a run of consecutive elements.
Contains(s, t) ==
    \E i \in 0..(Len(s) - Len(t)) : \A j \in 1..Len(t) : s[i + j] = t[j]

\* C1: in every receive operation neither decryptAESKey nor decryptFile is
\* called unless verifySignature was called before it and returned true for
\* that envelope; when verification fails, neither is called.
C1_VerifyBeforeDecrypt ==
    \A d \in Devices :
        LET op == recvOp[d]
        IN  /\ Precedes(op.log, "verifySignature", "decryptAESKey")
            /\ Precedes(op.log, "verifySignature", "decryptFile")
            /\ (Pos(op.log, "decryptAESKey") # 0 \/ Pos(op.log, "decryptFile") # 0)
                  => op.isValid
            /\ ~op.isValid =>
                  Pos(op.log, "decryptAESKey") = 0 /\ Pos(op.log, "decryptFile") = 0

\* A receive operation verified its envelope and then unwrapped and decrypted.
C1_Witness ==
    \E d \in Devices :
        /\ recvOp[d].isValid
        /\ Pos(recvOp[d].log, "decryptAESKey") # 0
        /\ Pos(recvOp[d].log, "decryptFile") # 0

\* C2: if a receive operation reaches success, the ciphertext that was
\* decrypted was signed by the user the inbox entry names as the sender.
C2_SignedByNamedSender ==
    \A d \in Devices :
        recvOp[d].outcome = "success" =>
            /\ recvOp[d].file.senderId \in recvOp[d].signers
            /\ MatOwner(recvOp[d].verifiedWith) = recvOp[d].file.senderId

\* C3: when verifySignature returns false, the receive operation moves to the
\* error state with the signature-invalid error, decrypts nothing and saves
\* nothing.
C3_InvalidSignatureIsError ==
    [][\A d \in Devices :
          LET op == recvOp'[d]
          IN  (recvOp[d].pc = "download" /\ Pos(op.log, "checkValid") # 0
               /\ ~op.isValid)
              => /\ op.outcome = "error"
                 /\ op.error = SignatureFailed
                 /\ Pos(op.log, "decryptFile") = 0
                 /\ Pos(op.log, "saveFile") = 0
                 /\ op.savedFile = NoFile
                 /\ saved' = saved
                 /\ recvOp[d].attached =>
                       /\ recvUI'[d].state = "error"
                       /\ recvUI'[d].error = SignatureFailed]_vars

\* A mounted receive operation whose verification returned false is in the
\* error state.
C3_Witness ==
    \E d \in Devices :
        /\ Pos(recvOp[d].log, "checkValid") # 0
        /\ ~recvOp[d].isValid
        /\ recvOp[d].attached
        /\ recvUI[d].state = "error"
        /\ recvUI[d].error = SignatureFailed

\* The parts of the upload request of the device's send operation.
SentParts(d) == sendFileParts(uploads[sendOp[d].upload].env)

\* C4: no part of an upload request contains the plaintext file bytes or the
\* raw content key; the file part is the AES-GCM ciphertext and the key part
\* is the RSA-OAEP wrapping of the content key.
C4_UploadHoldsNoPlaintext ==
    \A d \in Devices :
        sendOp[d].upload # 0 =>
            LET env == uploads[sendOp[d].upload].env
                P == sendOp[d].selectedFile.content
                k == DeviceKey(sendOp[d].no)
                parts == SentParts(d)
            IN  /\ \A i \in 1..Len(parts) :
                      /\ P # << >> => ~Contains(parts[i], P)
                      /\ P # << >> => ~Contains(parts[i], btoa(P))
                      /\ ~Contains(parts[i], RawAesKey(k))
                      /\ ~Contains(parts[i], btoa(RawAesKey(k)))
                /\ env.file \o atob(env.authTag).v
                      = encryptFile(P, k, atob(env.nonce).v)
                /\ \E m \in AllMat :
                      atob(env.encryptedAESKey).v
                         = encryptAESKey(k, [type |-> "public", alg |-> "RSA-OAEP",
                                             mat |-> m])

\* The device uploaded the envelope of a file that is not empty.
C4_Witness ==
    \E d \in Devices :
        /\ sendOp[d].upload # 0
        /\ sendOp[d].selectedFile.content # << >>

\* C5: the server's operator never becomes able to recover the plaintext of a
\* sent file: the content key of every envelope opens only under a private
\* key of the named receiver.
C5_ServerNeverRecoversPlaintext ==
    /\ ServerPlain = {}
    /\ \A i \in 1..Len(uploads) :
          MatOwner(atob(uploads[i].env.encryptedAESKey).v[1]) = uploads[i].to

\* The exported private keys, as bytes and as the stored strings.
PrivateKeyForms ==
    UNION { { exportKey("pkcs8", [type |-> "private", alg |-> "", mat |-> m]),
              exportPrivateKey([type |-> "private", alg |-> "", mat |-> m]) } :
            m \in AllMat }

\* The strings that are exported public keys.
PublicKeyStrings ==
    { exportPublicKey([type |-> "public", alg |-> "", mat |-> m]) : m \in AllMat }

\* C6: no request holds a private key; the keys transmitted (the registered
\* bundle, the sender key of an upload) are exported public keys.
C6_NoPrivateKeyOnTheWire ==
    \A r \in net :
        /\ \A i \in 1..Len(r.parts) :
              \A key \in PrivateKeyForms : ~Contains(r.parts[i], key)
        /\ r.kind = "publicKey" =>
              /\ JSONfield(r.parts[1], "encryption").v \in PublicKeyStrings
              /\ JSONfield(r.parts[1], "signing").v \in PublicKeyStrings
        /\ r.kind = "send" => r.parts[5] \in PublicKeyStrings

\* The key bundle was registered and an envelope was uploaded.
C6_Witness ==
    /\ \E r \in net : r.kind = "publicKey"
    /\ \E r \in net : r.kind = "send"

\* C7: the sender signs the digest of ciphertext, nonce and tag in this order;
\* the receiver verifies the digest it recomputes from the received
\* ciphertext, nonce and tag in this order; for an unmodified envelope the
\* receiver's digest is the one the sender signed.
C7_SameDigestBothSides ==
    \A d \in Devices :
        /\ sendOp[d].upload # 0 =>
              LET env == uploads[sendOp[d].upload].env
                  key == importSigningPublicKey(env.senderPublicKey).v
              IN  /\ sendOp[d].hash
                        = hashData(env.file \o atob(env.nonce).v \o atob(env.authTag).v)
                  /\ verifySignature(atob(env.signature).v, sendOp[d].hash, key)
        /\ Pos(recvOp[d].log, "verifySignature") # 0 => recvOp[d].digestOfReceived
        /\ (recvOp[d].origin # 0 /\ Pos(recvOp[d].log, "checkValid") # 0)
              => recvOp[d].isValid

\* The device uploaded an envelope and verified an unmodified envelope whose
\* ciphertext is not empty.
C7_Witness ==
    \E d \in Devices :
        /\ sendOp[d].upload # 0
        /\ uploads[sendOp[d].upload].env.file # << >>
        /\ recvOp[d].origin # 0
        /\ uploads[recvOp[d].origin].env.file # << >>
        /\ recvOp[d].isValid

\* C8: when a send to receiver R completed and the server delivers the
\* uploaded envelope unmodified, R's receive operation reaches success and
\* saves the bytes that were sent.
C8_RoundTrip ==
    /\ \A d \in Devices :
          (recvOp[d].origin # 0 /\ uploads[recvOp[d].origin].to = d)
             => /\ recvOp[d].outcome = "success"
                /\ recvOp[d].savedFile.content = uploads[recvOp[d].origin].content
    /\ \A d \in Devices, p \in Peers, shape \in Shapes :
          (sendOp[d].outcome = "success" /\ uploads[sendOp[d].upload].to = p)
             => LET r == PeerDownload(p, sendOp[d].upload, shape)
                IN  /\ r.outcome = "success"
                    /\ r.savedFile.content = sendOp[d].selectedFile.content

\* What holds of the round trip when the lookup returned the bundle the
\* receiver registered.
RoundTripUnderRegisteredKey ==
    /\ \A d \in Devices :
          (recvOp[d].origin # 0 /\ uploads[recvOp[d].origin].to = d)
             => /\ recvOp[d].outcome = "success"
                /\ recvOp[d].savedFile.content = uploads[recvOp[d].origin].content
    /\ \A d \in Devices, p \in Peers, shape \in Shapes :
          (sendOp[d].outcome = "success" /\ uploads[sendOp[d].upload].to = p
           /\ sendOp[d].receiverData.publicKey = serverKeys[p])
             => LET r == PeerDownload(p, sendOp[d].upload, shape)
                IN  /\ r.outcome = "success"
                    /\ r.savedFile.content = sendOp[d].selectedFile.content

\* C9: a receive operation whose ciphertext, nonce or tag differs from what
\* the sender produced, under the sender's signature and key, ends in error
\* and saves nothing.
C9_TamperedIsRejected ==
    \A d \in Devices :
        recvOp[d].tampered =>
            /\ recvOp[d].outcome = "error"
            /\ Pos(recvOp[d].log, "saveFile") = 0
            /\ recvOp[d].savedFile = NoFile

\* A receive operation got an envelope with an inverted bit.
C9_Witness ==
    \E d \in Devices : recvOp[d].tampered /\ recvOp[d].outcome = "error"

\* C10 as stated: generate, encrypt, digest and sign, wrap, upload.
C10_SignBeforeWrap ==
    \A d \in Devices :
        LET log == sendOp[d].log
        IN  /\ Precedes(log, "generateAESKey", "encryptFile")
            /\ Precedes(log, "generateNonce", "encryptFile")
            /\ Precedes(log, "encryptFile", "hashData")
            /\ Precedes(log, "hashData", "signData")
            /\ Precedes(log, "signData", "encryptAESKey")
            /\ Precedes(log, "encryptAESKey", "sendFile")

\* C10, amended: generate, encrypt, wrap, digest and sign, upload.
C10_WrapBeforeSign ==
    \A d \in Devices :
        LET log == sendOp[d].log
        IN  /\ Precedes(log, "generateAESKey", "encryptFile")
            /\ Precedes(log, "generateNonce", "encryptFile")
            /\ Precedes(log, "encryptFile", "encryptAESKey")
            /\ Precedes(log, "encryptAESKey", "hashData")
            /\ Precedes(log, "hashData", "signData")
            /\ Precedes(log, "signData", "sendFile")

\* A send operation ran all its steps and uploaded.
C10_Witness ==
    \E d \in Devices :
        /\ Pos(sendOp[d].log, "sendFile") # 0
        /\ sendOp[d].upload # 0

\* The messages the catch blocks of handleLookupReceiver and handleSend set.
SendFailureMessages ==
    {"User not found", "Local keys not found", "DataError", "Failed to send file"}

\* C11 as stated: whenever a step of the send sequence, the receiver lookup
\* included, has failed, the send state machine is in the error state.
C11_AnyFailureIsError ==
    \A d \in Devices :
        sendUI[d].error \in SendFailureMessages => sendUI[d].state = "error"

\* C11, amended: a failure of any step of handleSend (getKeys, the key
\* import, the upload) moves the mounted component to the error state with
\* the message of the error that was thrown; a failure of the receiver lookup
\* sets the message and leaves the component in the lookup state.
C11_SendFailureIsError ==
    [][\A d \in Devices :
          /\ (sendOp[d].pc # "idle" /\ sendOp'[d].pc = "idle"
              /\ sendOp'[d].outcome = "error")
             => /\ sendOp'[d].error \in SendFailureMessages
                /\ sendOp[d].attached =>
                      /\ sendUI'[d].state = "error"
                      /\ sendUI'[d].error = sendOp'[d].error
          /\ (lookupOp[d].pc = "wait" /\ sendUI'[d].error # "")
             => /\ sendUI'[d].error = "User not found"
                /\ sendUI'[d].state = "lookup"
                /\ sendUI'[d].receiverData = sendUI[d].receiverData]_vars

\* A mounted send operation failed at the import of the receiver's key and
\* the component is in the error state with that error.
C11_Witness ==
    \E d \in Devices :
        /\ sendOp[d].attached
        /\ sendOp[d].outcome = "error"
        /\ sendOp[d].error = "DataError"
        /\ sendUI[d].state = "error"
        /\ sendUI[d].error = "DataError"

\* The envelopes device d uploaded.
UploadsOf(d, ups) == { i \in 1..Len(ups) : ups[i].sender = d }

\* While the SendFile component is in the error state, its handleSend is not
\* running, and a step that leaves it in the error state runs no step of
\* handleSend and issues no request.
SendErrorIsQuiet(d) ==
    sendUI[d].state = "error" =>
        /\ sendOp[d].pc = "idle"
        /\ lookupOp[d].pc = "idle"
        /\ sendUI'[d].state = "error" =>
              /\ sendOp'[d] = sendOp[d]
              /\ lookupOp'[d] = lookupOp[d]
              /\ net' = net
              /\ UploadsOf(d, uploads') = UploadsOf(d, uploads)

\* The same for the ReceiveFiles component, its handleDownload and its
\* fetchInbox (whose requests have no body and are not in net).
RecvErrorIsQuiet(d) ==
    recvUI[d].state = "error" =>
        /\ recvOp[d].pc = "idle"
        /\ inboxOp[d] = "idle"
        /\ recvUI'[d].state = "error" =>
              /\ recvOp'[d] = recvOp[d]
              /\ inboxOp'[d] = inboxOp[d]
              /\ saved' = saved

\* C12 as stated: once a send or receive is in the error state no step of the
\* transfer is issued again, and the error state is left only through
\* handleReset, which puts the mounted component in its initial state.
C12_OnlyResetLeavesError ==
    [][\A d \in Devices :
          /\ SendErrorIsQuiet(d)
          /\ RecvErrorIsQuiet(d)
          /\ (sendUI[d].state = "error" /\ sendUI'[d].state # "error")
             => /\ currentView'[d] = currentView[d]
                /\ sendUI'[d] = SendUIInit
          /\ (recvUI[d].state = "error" /\ recvUI'[d].state # "error")
             => /\ currentView'[d] = currentView[d]
                /\ recvUI'[d].state = "list"]_vars

\* C12, amended: once a send or receive is in the error state no step of the
\* transfer is issued again, and the error state is left only by a user
\* action: handleReset, which puts the component in its initial state (lookup,
\* list) with the error and the selection cleared, or Back, which unmounts
\* the component.
C12_OnlyUserLeavesError ==
    [][\A d \in Devices :
          /\ SendErrorIsQuiet(d)
          /\ RecvErrorIsQuiet(d)
          /\ (sendUI[d].state = "error" /\ sendUI'[d].state # "error")
             => /\ sendUI'[d] = SendUIInit
                /\ \/ currentView'[d] = currentView[d]
                   \/ currentView[d] = "send" /\ currentView'[d] = "dashboard"
                /\ sendOp'[d].pc = "idle" /\ net' = net /\ uploads' = uploads
          /\ (recvUI[d].state = "error" /\ recvUI'[d].state # "error")
             => /\ recvUI'[d].state = "list"
                /\ recvUI'[d].selectedFile = NoInboxFile
                /\ recvUI'[d].error = ""
                /\ \/ currentView'[d] = currentView[d]
                   \/ currentView[d] = "receive" /\ currentView'[d] = "dashboard"
                /\ recvOp'[d].pc = "idle" /\ inboxOp'[d] = "idle"
                /\ saved' = saved]_vars

\* A send failed, the user chose Try Again, and the mounted component is in
\* its initial state with no handler running.
C12_Witness ==
    \E d \in Devices :
        /\ sendOp[d].attached
        /\ sendOp[d].outcome = "error"
        /\ sendOp[d].pc = "idle"
        /\ Shown(d, "send")
        /\ sendUI[d] = SendUIInit

SendParseOrFallback(d) ==
    LET op == sendOp[d]
        publicKey == op.receiverData.publicKey
    IN  Pos(op.log, "parseReceiverKey") # 0 =>
           /\ Pos(op.log, "importPublicKey") # 0
           /\ ~JSONfield(publicKey, "encryption").ok =>
                 /\ op.imported.text = publicKey
                 /\ IF importPublicKey(publicKey).ok
                    THEN /\ op.imported.key = importPublicKey(publicKey).v
                         /\ op.imported.key.alg = "RSA-OAEP"
                         /\ op.upload # 0
                         /\ atob(uploads[op.upload].env.encryptedAESKey).v[1]
                               = op.imported.key.mat
                    ELSE op.outcome = "error" /\ op.error = "DataError"

\* C14 as stated: at both parse sites malformed JSON never raises out of the
\* decoding step, and a string that is not JSON is treated whole as a bare
\* encryption public key.
C14_FallbackIsEncryptionKey ==
    \A d \in Devices :
        /\ SendParseOrFallback(d)
        /\ Pos(recvOp[d].log, "parseSenderKey") # 0 =>
              /\ Pos(recvOp[d].log, "importSigningPublicKey") # 0
              /\ ~JSONfield(recvOp[d].senderPublicKey, "signing").ok =>
                    /\ recvOp[d].imported.text = recvOp[d].senderPublicKey
                    /\ recvOp[d].imported.key # NoKey =>
                          recvOp[d].imported.key.alg = "RSA-OAEP"

\* C14, amended: at both parse sites malformed JSON never raises out of the
\* decoding step; a string that is not JSON is treated whole as a bare
\* encryption public key in send and as a bare signing public key in receive.
C14_ParseOrFallback ==
    \A d \in Devices :
        /\ SendParseOrFallback(d)
        /\ Pos(recvOp[d].log, "parseSenderKey") # 0 =>
              /\ Pos(recvOp[d].log, "importSigningPublicKey") # 0
              /\ ~JSONfield(recvOp[d].senderPublicKey, "signing").ok =>
                    /\ recvOp[d].imported.text = recvOp[d].senderPublicKey
                    /\ IF importSigningPublicKey(recvOp[d].senderPublicKey).ok
                       THEN /\ recvOp[d].imported.key
                                  = importSigningPublicKey(recvOp[d].senderPublicKey).v
                            /\ recvOp[d].imported.key.alg = "RSA-PSS"
                            /\ Pos(recvOp[d].log, "verifySignature") # 0
                            /\ recvOp[d].verifiedWith = recvOp[d].imported.key.mat
                       ELSE /\ recvOp[d].outcome = "error"
                            /\ recvOp[d].error = "DataError"

\* A send took the fallback with a bare key and uploaded, and a receive took
\* the fallback with a bare key and verified with it.
C14_Witness ==
    \E d \in Devices :
        /\ ~JSONfield(sendOp[d].receiverData.publicKey, "encryption").ok
        /\ sendOp[d].upload # 0
        /\ ~JSONfield(recvOp[d].senderPublicKey, "signing").ok
        /\ recvOp[d].isValid

\* How often step occurs in a call log.
Calls(log, step) == Cardinality({ i \in 1..Len(log) : log[i] = step })

\* C15: across every interleaving of the send operations of a device, each
\* operation calls generateAESKey and generateNonce once, before it encrypts;
\* it calls encryptFile at most once, with the key and the nonce it generated
\* itself; no content key is used by two encrypt calls and no (content key,
\* nonce) pair is used by two encrypt calls.
C15_FreshKeyPerSend ==
    \A d \in Devices :
        LET runs == sendRuns[d].runs
            calls == sendRuns[d].calls
        IN  /\ \A i \in DOMAIN runs :
                  /\ Calls(runs[i].e.log, "generateAESKey") <= 1
                  /\ Calls(runs[i].e.log, "generateNonce") <= 1
                  /\ Calls(runs[i].e.log, "encryptFile") <= 1
                  /\ Precedes(runs[i].e.log, "generateAESKey", "encryptFile")
                  /\ Precedes(runs[i].e.log, "generateNonce", "encryptFile")
            /\ \A a \in DOMAIN calls :
                  /\ calls[a].key = runs[calls[a].run].e.newKey
                  /\ calls[a].nonce = runs[calls[a].run].e.newNonce
                  /\ calls[a].key \in { DeviceKey(n) : n \in 1..MaxRuns }
                  /\ calls[a].nonce \in Nonces
            /\ \A a, b \in DOMAIN calls :
                  a # b => /\ calls[a].run # calls[b].run
                           /\ calls[a].key # calls[b].key
                           /\ <<calls[a].key, calls[a].nonce>>
                                 # <<calls[b].key, calls[b].nonce>>
            /\ \A i, j \in DOMAIN runs :
                  (i # j /\ runs[i].e.aesKey # 0) => runs[i].e.aesKey # runs[j].e.aesKey

\* A second send was started while the first was in flight, generated its key
\* between the first one's generateAESKey and encryptFile, and both have
\* encrypted and uploaded.
C15_Witness ==
    \E d \in Devices :
        LET runs == sendRuns[d].runs
            calls == sendRuns[d].calls
        IN  /\ Len(runs) = 2 /\ Len(calls) = 2
            /\ calls[1].run = 2
            /\ runs[1].e.aesKey = DeviceKey(1)
            /\ runs[1].pc = "upload" /\ runs[2].pc = "upload"

\* C16: the key store holds nothing or the four exported keys of one
\* generation of key pairs, never a content key or a nonce; a step changes it
\* only when a new-user login stores the key pairs it generated, once per
\* such login, or when a clearKeys issued by logout runs; an existing-user
\* login and every step of a send or a receive leave it unchanged.
C16_KeyStoreFrame ==
    [][\A d \in Devices :
          /\ keyStore'[d] \in {NoKeys} \cup { ExportedKeys(d, g) : g \in Generations }
          /\ keyStore'[d] # keyStore[d] =>
                \/ /\ loginOp[d].pc = "store" /\ loginOp'[d].pc = "upload"
                   /\ keyStore'[d] = ExportedKeys(d, loginOp[d].gen)
                   /\ sendOp'[d] = sendOp[d] /\ recvOp'[d] = recvOp[d]
                \/ /\ clearPending[d] /\ ~clearPending'[d]
                   /\ keyStore'[d] = NoKeys
                   /\ count.logouts > 0
                   /\ sendOp'[d] = sendOp[d] /\ recvOp'[d] = recvOp[d]
          /\ (loginOp[d].pc \in {"auth", "hasKeys"} /\ loginOp'[d] # loginOp[d])
             => keyStore'[d] = keyStore[d]
          /\ (sendOp'[d] # sendOp[d] \/ recvOp'[d] # recvOp[d]
              \/ uploads' # uploads \/ saved' # saved)
             => keyStore'[d] = keyStore[d]]_vars

\* The keys were stored by a new-user login, a file was sent and one was
\* received, the user logged out and the store was cleared.
C16_Witness ==
    \E d \in Devices :
        /\ keyGen[d] = 1
        /\ sendOp[d].outcome = "success"
        /\ recvOp[d].outcome = "success"
        /\ count.logouts = 1
        /\ ~clearPending[d]
        /\ keyStore[d] = NoKeys


\* The statement group at which a call log ends: the one that threw when the
\* invocation threw.
LastStep(log) == IF log = << >> THEN "" ELSE log[Len(log)]

\* The three failures of a receive operation told apart by C17: the signature
\* is rejected, the content key does not unwrap, the tag does not authenticate.
RecvFailureSteps == {"checkValid", "decryptAESKey", "decryptFile"}

\* What handleDownload of device d's invocation would end with had the server
\* answered env.
RecvOutcomeOf(d, env) ==
    RunRecv(RecvSteps,
            RecvEnv(recvOp[d].keys, recvOp[d].file,
                    downloadFile(DownloadResponse(env, "json")).v))

\* The envelopes the server can answer any download of device d with.
AllDeliverable(d) == UNION { AnyDeliverable(d, i) : i \in 0..Len(uploads) }

SendAbandoned(d) == sendOp[d].pc # "idle" /\ ~sendOp[d].attached

RecvAbandoned(d) == recvOp[d].pc # "idle" /\ ~recvOp[d].attached

\* C18: once the user has gone Back out of the view while handleSend or
\* handleDownload was running, no step adds an upload of the device, sends a
\* request or saves a file on the device.
C18_AbandonedHasNoEffect ==
    [][\A d \in Devices :
          /\ SendAbandoned(d)
             => /\ net' = net
                /\ uploads' = uploads \/ uploads'[Len(uploads')].sender # d
          /\ RecvAbandoned(d) => saved'[d] = saved[d]]_vars


\* The statement groups of handleDownload after the test of isValid.
AfterCheck == {"importPrivateKey", "decryptAESKey", "decryptFile", "saveFile"}

\* handleDownload on device d got an answer whose sender key does not import.
UnusableKey(d) ==
    /\ LastStep(recvOp[d].log) # ""
    /\ ~importSigningPublicKey(SenderSigningKey(recvOp[d].senderPublicKey)).ok

\* handleDownload on device d got an answer whose signature text does not
\* decode to bytes.
UndecodableSignature(d) ==
    /\ LastStep(recvOp[d].log) # ""
    /\ ~base64ToArrayBuffer(recvOp[d].signature).ok

\* handleDownload on device d has ended on an answer whose signature it could
\* not accept: the sender key does not import, or the digest was computed and
\* the signature text does not decode or the signature does not verify.
SignatureNotAccepted(d) ==
    /\ recvOp[d].pc = "idle"
    /\ \/ UnusableKey(d)
       \/ /\ Pos(recvOp[d].log, "hashData") # 0
          /\ UndecodableSignature(d) \/ ~recvOp[d].isValid

\* C19 as stated: whenever the signature cannot be accepted, verifySignature
\* was called and returned false, and the operation ends with the
\* signature-invalid error: no exception takes the place of the result false.
C19_AlwaysFalseNeverThrows ==
    \A d \in Devices :
        SignatureNotAccepted(d) =>
            /\ Pos(recvOp[d].log, "verifySignature") # 0
            /\ LastStep(recvOp[d].log) = "checkValid"
            /\ recvOp[d].outcome = "error"
            /\ recvOp[d].error = SignatureFailed

\* C19, amended: whenever the signature cannot be accepted the operation ends
\* in error with nothing unwrapped, decrypted or saved. A signature that does
\* not verify under the imported key (mismatch, bytes cut short, key of
\* another pair) gives the result false and the signature-invalid error; a
\* sender key that does not import and a signature text that is not base64
\* throw, at importSigningPublicKey and at base64ToArrayBuffer, and the
\* operation ends with that exception's error instead.
C19_FailClosed ==
    \A d \in Devices :
        SignatureNotAccepted(d) =>
            /\ recvOp[d].outcome = "error"
            /\ \A i \in DOMAIN recvOp[d].log : recvOp[d].log[i] \notin AfterCheck
            /\ recvOp[d].savedFile = NoFile
            /\ ~recvOp[d].isValid
            /\ IF UnusableKey(d)
               THEN /\ LastStep(recvOp[d].log) = "importSigningPublicKey"
                    /\ recvOp[d].error = "DataError"
               ELSE IF UndecodableSignature(d)
               THEN /\ LastStep(recvOp[d].log) = "verifySignature"
                    /\ recvOp[d].error = "InvalidCharacterError"
               ELSE /\ LastStep(recvOp[d].log) = "checkValid"
                    /\ recvOp[d].error = SignatureFailed
            /\ recvOp[d].error # SignatureFailed
               => recvOp[d].error \in {"DataError", "InvalidCharacterError"}

\* A receive operation ended with the exception of base64ToArrayBuffer on a
\* signature text that is not base64, under the sender's own signing key, and
\* the component shows it; nothing was saved.
C19_Witness ==
    \E d \in Devices :
        /\ SignatureNotAccepted(d)
        /\ ~UnusableKey(d) /\ UndecodableSignature(d)
        /\ recvOp[d].error = "InvalidCharacterError"
        /\ recvUI[d].state = "error" /\ recvUI[d].error = "InvalidCharacterError"
        /\ saved[d] = {}


KeysMissing == "Local keys not found"

\* C20: when getKeys of a send or receive operation returns and finds the key
\* store without key pairs, the operation ends in error with the key-missing
\* message and its mounted component shows the error state with it; no
\* cryptographic call was made, no upload was added, no request was sent,
\* the download was not requested and no file was saved.
C20_KeysMissingBeforeAll ==
    [][\A d \in Devices :
          /\ (sendOp[d].pc = "getKeys" /\ keyStore[d] = NoKeys
              /\ sendOp'[d].pc # "getKeys")
             => /\ sendOp'[d].pc = "idle"
                /\ sendOp'[d].outcome = "error"
                /\ sendOp'[d].error = KeysMissing
                /\ sendOp'[d].log = << >>
                /\ sendOp'[d].upload = 0
                /\ uploads' = uploads /\ net' = net
                /\ sendOp[d].attached
                   => (sendUI'[d].state = "error" /\ sendUI'[d].error = KeysMissing)
          /\ (recvOp[d].pc = "getKeys" /\ keyStore[d] = NoKeys
              /\ recvOp'[d].pc # "getKeys")
             => /\ recvOp'[d].pc = "idle"
                /\ recvOp'[d].outcome = "error"
                /\ recvOp'[d].error = KeysMissing
                /\ recvOp'[d].log = << >>
                /\ recvOp'[d].senderPublicKey = Absent
                /\ saved' = saved /\ net' = net
                /\ recvOp[d].attached
                   => (recvUI'[d].state = "error" /\ recvUI'[d].error = KeysMissing)
          /\ \A op \in {sendOp'[d], recvOp'[d]} :
                op.error = KeysMissing => (op.outcome = "error" /\ op.log = << >>)]_vars

\* With an empty key store, a send and a receive of the device have both ended
\* with the key-missing error, the receive in a mounted component that shows
\* it; nothing of the device was uploaded or saved.
C20_Witness ==
    \E d \in Devices :
        /\ keyStore[d] = NoKeys
        /\ sendOp[d].outcome = "error" /\ sendOp[d].error = KeysMissing
        /\ recvOp[d].outcome = "error" /\ recvOp[d].error = KeysMissing
        /\ recvOp[d].attached
        /\ recvUI[d].state = "error" /\ recvUI[d].error = KeysMissing
        /\ saved[d] = {}
        /\ \A i \in DOMAIN uploads : uploads[i].sender # d


\* The hasKeys() of an existing user's login settles on device d and finds no
\* keys.
ExistingUserWithoutKeys(d) ==
    /\ loginOp[d].pc = "hasKeys" /\ loginOp'[d].pc = "idle"
    /\ ~hasKeys(keyStore[d])

\* C21 as stated: when the login of an existing user finds no local keys, the
\* user is let through to the dashboard with its Send and Receive cards.
C21_NoGate ==
    [][\A d \in Devices :
          ExistingUserWithoutKeys(d) => ShownNext(d, "dashboard")]_vars

\* C21, amended: the login of an existing user that finds no local keys does
\* not fail and does nothing but record the result (the user stays logged in
\* with the token stored unless they logged out meanwhile, hasKeyPair is
\* false, no key is generated or stored, no request is sent), and Dashboard then renders none of its views: the Send
\* and Receive views are opened and a send or a download is started only
\* while hasKeyPair is true.
C21_GatedByHasKeyPair ==
    [][\A d \in Devices :
          /\ ExistingUserWithoutKeys(d)
             => /\ isLoggedIn' = isLoggedIn /\ jwt' = jwt /\ ~hasKeyPair'[d]
                /\ keyStore' = keyStore /\ keyGen' = keyGen /\ net' = net
                /\ \A v \in {"dashboard", "send", "receive"} : ~ShownNext(d, v)
          /\ (currentView[d] = "dashboard" /\ currentView'[d] # "dashboard")
             => hasKeyPair[d]
          /\ (count'.sends # count.sends \/ count'.downloads # count.downloads)
             => hasKeyPair[d]]_vars

\* An existing user is logged in on a device that never held keys: the login
\* has finished, hasKeyPair is false and no view of the dashboard is rendered.
C21_Witness ==
    \E d \in Devices :
        /\ isLoggedIn[d] /\ jwt[d] /\ ~hasKeyPair[d]
        /\ loginOp[d].pc = "idle" /\ ~mountCheck[d]
        /\ keyGen[d] = 0 /\ keyStore[d] = NoKeys
        /\ \A v \in {"dashboard", "send", "receive"} : ~Shown(d, v)


\* Ciphertexts of every length modulo three, with the extreme byte values.
Ciphertexts == {<< >>, <<255>>, <<104, 105>>, <<0, 128, 255>>, <<1, 2, 3, 4>>}

\* The envelopes compared in both shapes while device d awaits a download:
\* what the server may deliver, and the same with other ciphertexts.
Compared(d) ==
    LET envs == StoredOrNameless(recvOp[d].file.fileId)
    IN  envs \cup { [env EXCEPT !.encryptedFile = c] :
                      env \in envs, c \in Ciphertexts }

C23_SplitAndRejoin ==
    \A i \in DOMAIN uploads :
        LET E == uploads[i].aead
            env == uploads[i].env
            n == Len(E) - 16
            authTag == base64ToArrayBuffer(env.authTag)
        IN  /\ n = Len(uploads[i].content)
            /\ env.file = SubSeq(E, 1, n)
            /\ Len(env.file) = Len(uploads[i].content)
            /\ authTag = Ok(SubSeq(E, n + 1, Len(E)))
            /\ Len(authTag.v) = 16
            /\ \A d \in Devices :
                  (recvOp[d].origin = i /\ Pos(recvOp[d].log, "decryptFile") # 0)
                  => /\ recvOp[d].ciphertextWithTag = E
                     /\ recvOp[d].ciphertextWithTag = env.file \o authTag.v

\* The device has uploaded a file that is not empty, cut from E, and has
\* received and decrypted another upload whose E it rejoined.
C23_Witness ==
    \E d \in Devices :
        /\ \E j \in DOMAIN uploads :
              /\ uploads[j].sender = d
              /\ Len(uploads[j].content) > 0
              /\ Len(uploads[j].aead) = Len(uploads[j].content) + 16
        /\ \E i \in DOMAIN uploads :
              /\ recvOp[d].origin = i
              /\ recvOp[d].outcome = "success"
              /\ recvOp[d].ciphertextWithTag = uploads[i].aead
              /\ recvOp[d].savedFile.content = uploads[i].content


\* The number of calls of step in a call log.
Times(log, step) == Cardinality({ i \in DOMAIN log : log[i] = step })

\* The step ends the receive operation of device d.
RecvEnds(d) == recvOp[d].pc # "idle" /\ recvOp'[d].pc = "idle"

\* C24: a file is saved on the device only by the step that ends a receive
\* operation in success; a receive operation that ends in error has not called
\* the save and saves nothing; one that ends in success has called the save
\* once, as its last call, with the decrypted plaintext, and its mounted
\* component shows the success state.
C24_SaveOnlyOnSuccess ==
    [][\A d \in Devices :
          /\ saved'[d] # saved[d]
             => (RecvEnds(d) /\ recvOp'[d].outcome = "success")
          /\ (RecvEnds(d) /\ recvOp'[d].outcome = "error")
             => /\ saved' = saved
                /\ Times(recvOp'[d].log, "saveFile") = 0
                /\ recvOp'[d].savedFile = NoFile
                /\ recvOp[d].attached => recvUI'[d].state = "error"
          /\ (RecvEnds(d) /\ recvOp'[d].outcome = "success")
             => /\ Times(recvOp'[d].log, "saveFile") = 1
                /\ LastStep(recvOp'[d].log) = "saveFile"
                /\ saved'[d] = saved[d] \cup {recvOp'[d].savedFile}
                /\ recvOp'[d].savedFile.picked
                /\ recvOp'[d].origin # 0
                   => recvOp'[d].savedFile.content
                      = uploads[recvOp'[d].origin].content
                /\ recvOp[d].attached => recvUI'[d].state = "success"
          /\ RecvEnds(d) => recvOp'[d].outcome \in {"success", "error"}]_vars

\* A receive operation has ended in success with its one save made, and the
\* component shows the success state.
C24_Witness ==
    \E d \in Devices :
        /\ recvOp[d].outcome = "success"
        /\ recvUI[d].state = "success"
        /\ Times(recvOp[d].log, "saveFile") = 1
        /\ saved[d] = {recvOp[d].savedFile}
        /\ recvOp[d].origin # 0
        /\ recvOp[d].savedFile.content = uploads[recvOp[d].origin].content


\* C25: whatever the order in which storeKeys, clearKeys and getKeys are
\* called and their requests run, getKeys resolves with null or with the four
\* keys of one call of storeKeys; and while no readwrite transaction is
\* running the store holds nothing or the four keys of one call.
C25_AtomicKeyStore ==
    \A d \in Devices :
        /\ \A r \in idb[d].got :
              \/ ~r.ok
              \/ \E g \in Generations : r = Ok(ExportedKeys(d, g))
        /\ (\A i \in DOMAIN idb[d].txs :
               idb[d].txs[i].kind # "getKeys" => idb[d].txs[i].pos = 0)
           => keyStore[d] \in {NoKeys} \cup { ExportedKeys(d, g) : g \in Generations }

\* getKeys has resolved with the keys of a first storeKeys, and a second
\* getKeys has read two of the four keys while a storeKeys with other keys,
\* created after it, waits for it to complete.
C25_Witness ==
    \E d \in Devices :
        /\ Ok(ExportedKeys(d, 1)) \in idb[d].got
        /\ Len(idb[d].txs) = 2
        /\ idb[d].txs[1].kind = "getKeys" /\ idb[d].txs[1].pos = 2
        /\ idb[d].txs[2].kind = "storeKeys"
        /\ idb[d].txs[2].keys = ExportedKeys(d, 2)
        /\ ENABLED RequestRuns(d, 1) /\ ~ENABLED RequestRuns(d, 2)


\* The user of device d has logged out and not logged in again, and the
\* clearKeys issued by logout has completed.
LoggedOut(d) == count.logouts > 0 /\ ~isLoggedIn[d] /\ ~clearPending[d]

\* C26: after logout the token is absent and isLoggedIn and hasKeyPair are
\* false, and once the clearKeys issued by logout has completed the key store
\* holds no keys and getKeys returns null.
C26_LoggedOutIsClean ==
    \A d \in Devices :
        /\ (count.logouts > 0 /\ ~isLoggedIn[d]) => (~jwt[d] /\ ~hasKeyPair[d])
        /\ LoggedOut(d) => (keyStore[d] = NoKeys /\ ~getKeys(keyStore[d]).ok)


\* ---------------------------------------------------------------------- C27
\* The send whose envelope is the upload-th of the server's store.
UploadedBy(d) == uploads[sendOp[d].upload]

\* C27: whenever the state of SendFile is 'select' receiverData is set,
\* whenever it is 'sending' receiverData and selectedFile are both set and are
\* those the running handleSend works with, and the envelope a send uploaded
\* has the userId of the lookup's answer as receiverId and a content key
\* wrapped under the encryption key of that same answer's bundle.
C27_ReceiverBound ==
    \A d \in Devices :
        /\ (Shown(d, "send") /\ sendUI[d].state = "select")
              => sendUI[d].receiverData # NoData
        /\ (Shown(d, "send") /\ sendUI[d].state = "sending")
              => /\ sendUI[d].receiverData # NoData
                 /\ sendUI[d].selectedFile.picked
                 /\ sendOp[d].attached
                 /\ sendOp[d].receiverData = sendUI[d].receiverData
                 /\ sendOp[d].selectedFile = sendUI[d].selectedFile
        /\ sendOp[d].upload # 0
              => /\ sendOp[d].receiverData # NoData
                 /\ UploadedBy(d).env.receiverId = sendOp[d].receiverData.userId
                 /\ sendOp[d].imported.text =
                        ReceiverEncryptionKey(sendOp[d].receiverData.publicKey)
                 /\ UploadedBy(d).env.encryptedAESKey =
                        arrayBufferToBase64(
                            encryptAESKey(DeviceKey(sendOp[d].no),
                                          sendOp[d].imported.key))

\* A send has uploaded its envelope for the receiver that was looked up, the
\* email input having been edited while the lookup was in flight.
C27_Witness ==
    \E d \in Devices :
        /\ Shown(d, "send")
        /\ sendUI[d].state = "sending"
        /\ sendOp[d].upload # 0
        /\ UploadedBy(d).env.receiverId = sendUI[d].lookedUp
        /\ sendUI[d].receiverEmail # sendUI[d].lookedUp

\* ---------------------------------------------------------------------- C28
\* C28: the receiver shown in the 'select' state, "Sending to:" followed by
\* receiverEmail, is the address whose lookup produced the stored
\* receiverData.
C28_ShownReceiverIsLookedUp ==
    \A d \in Devices :
        (Shown(d, "send") /\ sendUI[d].state = "select")
            => /\ sendUI[d].receiverEmail = sendUI[d].lookedUp
               /\ sendUI[d].receiverData.userId = sendUI[d].receiverEmail

\* ---------------------------------------------------------------------- C29
\* The download of d that ended was answered with the stored envelope's
\* ciphertext, nonce, authTag and signature.
SignedPartUnchanged(d) ==
    /\ recvOp[d].outcome # ""
    /\ recvOp[d].received.signedPartAsStored

\* The wrapped content key the download of d was answered with is not the
\* stored one.
KeyAltered(d) ==
    recvOp[d].received.encryptedAESKey
        # uploads[recvOp[d].file.fileId].env.encryptedAESKey

\* The file name the download of d was answered with is not the stored one.
NameAltered(d) ==
    recvOp[d].received.fileName # uploads[recvOp[d].file.fileId].env.fileName

\* C29: a download answered with the stored ciphertext, nonce, authTag and
\* signature but with another wrapped content key or another file name ends in
\* the error state and saves nothing.
C29_AlteredFieldsRejected ==
    \A d \in Devices :
        (SignedPartUnchanged(d) /\ (KeyAltered(d) \/ NameAltered(d)))
            => /\ recvOp[d].outcome = "error"
               /\ recvOp[d].savedFile = NoFile
               /\ saved[d] = {}

\* The part that holds: with another wrapped content key the download ends in
\* the error state and saves nothing.
C29_AlteredKeyRejected ==
    \A d \in Devices :
        (SignedPartUnchanged(d) /\ KeyAltered(d))
            => /\ recvOp[d].outcome = "error"
               /\ recvOp[d].savedFile = NoFile


\* ---------------------------------------------------------------------- C30
\* The login handler of d that had called storeKeys finishes, with
\* setHasKeyPair(true) or in its catch block.
LoginFinishes(d) ==
    /\ loginOp[d].pc \in {"upload", "uploaded"}
    /\ loginOp'[d].pc = "idle"

\* C30: when the login handler finishes, the key store holds the key pairs
\* that login wrote, which the mount effect's hasKeys() of a later session
\* accepts, only if the server has registered the matching bundle.
C30_StoredOnlyIfUploaded ==
    [][\A d \in Devices :
          (/\ LoginFinishes(d)
           /\ keyStore'[d] = storeKeys(ExportedKeys(d, loginOp[d].gen))
           /\ hasKeys(keyStore'[d]))
              => serverKeys'[d] = Bundle[d, loginOp[d].gen]]_vars


\* ---------------------------------------------------------------------- C31
\* The login handler of d ends in its catch block: authGoogle threw, or
\* uploadPublicKey threw before the server registered the bundle.
LoginFails(d) ==
    /\ loginOp[d].pc \in {"auth", "upload"}
    /\ loginOp'[d].pc = "idle"

\* C31: when the login handler fails and reports 'Login failed', no session
\* token remains stored and isLoggedIn is false.
C31_FailedLoginNotLoggedIn ==
    [][\A d \in Devices :
          LoginFails(d) => (~jwt'[d] /\ ~isLoggedIn'[d])]_vars

\* The part that holds: when authGoogle throws, no session token is stored
\* and isLoggedIn is false.
C31_FailedAuthNotLoggedIn ==
    [][\A d \in Devices :
          (loginOp[d].pc = "auth" /\ loginOp'[d].pc = "idle")
              => (~jwt'[d] /\ ~isLoggedIn'[d])]_vars

\* ---------------------------------------------------------------------- C32
\* Nothing asynchronous is pending on d: the mount effect's hasKeys() has
\* settled, no login handler is running and no clearKeys is waiting.
Settled(d) ==
    /\ ~mountCheck[d]
    /\ loginOp[d].pc = "idle"
    /\ ~clearPending[d]

\* C32: once everything pending has settled, hasKeyPair tells whether the key
\* store holds a complete key set.
C32_FlagMatchesStore ==
    \A d \in Devices : Settled(d) => (hasKeyPair[d] = hasKeys(keyStore[d]))

==============================================================================
